---------------------------- MODULE Spec2Model ----------------------------
(***************************************************************************)
(* QuizClash backend: the question sampling engine, the question cache of  *)
(* generate_questions and the tournament session scoring, as state         *)
(* machines translated from src/backend/main.py and                        *)
(* src/backend/tournament_api.py.                                          *)
(*                                                                         *)
(* Specifications:                                                         *)
(*   SpecSampling  one call of smart_question_sampling on a bounded pool   *)
(*   SpecCache     generate_questions / pre_warm_cache as whole handlers   *)
(*   SpecRace      generate_questions split at its statements, interleaved *)
(*                 with a second request and with pre_warm_cache           *)
(*   Spec          tournament sessions: start, submit answer, complete     *)
(***************************************************************************)
EXTENDS Integers, Sequences, FiniteSets, TLC

VARIABLES
    \* ---- smart_question_sampling (main.py 2449-2551) ----
    questions,                  \* the pool argument: a list of Question rows
    count,                      \* the count argument
    spc,                        \* position inside smart_question_sampling
    use_enhanced_randomization, \* main.py 2471
    topic_ids_list,             \* main.py 2505: topics in order of first appearance
    topic_questions,            \* main.py 2475: topic_id -> ordered list
    selected_questions,         \* main.py 2498
    additional_questions,       \* main.py 2527/2533: what the top-up added
    result,                     \* the returned list
    \* ---- generate_questions / pre_warm_cache (main.py 55-124, 2287-2405) ----
    times_asked,                \* Question.times_asked of every stored question
    question_cache,             \* main.py 56: cache_key -> (cached_data, cache_time)
    now,                        \* time.time()
    request,                    \* the request of the latest generate_questions call
    response,                   \* what that call returned
    from_cache,                 \* whether it returned at main.py 2309 (the cached data)
    calls,                      \* generate_questions calls served so far
    prewarm_runs,               \* completed pre_warm_cache runs
    \* ---- generate_questions statement by statement (SpecRace) ----
    handlers,                   \* request handler -> its position and locals
    warm,                       \* position and locals of the pre_warm_cache thread
    last_write,                 \* history: cache_key -> the latest write to the entry
    \* ---- tournament sessions (tournament_api.py 1124-1337) ----
    tournament_participants,    \* participant id -> TournamentParticipant row
    tournament_sessions,        \* session id -> TournamentSession row
    tournament_answers,         \* TournamentAnswer rows in insertion order
    submit_response,            \* what the latest submit_tournament_answer returned
    \* ---- tournament listings (tournament_api.py 759-794, 1352-1507) ----
    board_participants,         \* participant id -> TournamentParticipant row
    board_answers,              \* participant id -> the answers of its session
    board_listing,              \* the listing the latest call returned
    \* ---- evaluate_achievements (achievements_api.py 234-345) ----
    achievement_rows,           \* the achievements table: rows in insertion order
    ev,                         \* the call being served: its position and locals
    ev_response,                \* what the latest finished call returned
    ev_prev,                    \* history: the call finished before the latest one
    eval_calls,                 \* evaluate_achievements calls so far
    \* ---- the questions table and its readers (main.py 237-556, 1008-1025) ----
    stored_questions,           \* the questions table: rows in insertion order
    bank_cache,                 \* main.py 56: cache_key -> cached_data
    bank_response,              \* what the latest generate_questions call returned
    bank_request,               \* history: the request of that call
    bank_calls,                 \* calls of these handlers so far
    bank_session,               \* the TournamentSession answers are submitted to
    bank_answers,               \* TournamentAnswer rows in insertion order
    bank_scored,                \* history: the Question rows read at tournament_api.py 1207
    \* ---- the points of one answer (tournament_api.py 1213-1222) ----
    answer_data,                \* the body of a submit_tournament_answer request
    answer_points,              \* points, once computed
    answer_pc,                  \* "idle", "received" or "scored"
    \* ---- entering and playing a tournament (tournament_api.py 152-876, 1066-1350) ----
    entry_tournaments,          \* the tournaments table: rows in insertion order
    entry_participants,         \* the tournament_participants table, likewise
    entry_sessions,             \* the tournament_sessions table, likewise
    entry_answers,              \* the tournament_answers table, likewise
    entry_last,                 \* history: the latest call, its caller and its status code
    entry_calls                 \* calls of these handlers so far

samplingVars == <<questions, count, spc, use_enhanced_randomization, topic_ids_list,
                  topic_questions, selected_questions, additional_questions, result>>

cacheVars == <<times_asked, question_cache, now, request, response, from_cache, calls,
               prewarm_runs>>

raceVars == <<handlers, warm, last_write>>

tournamentVars == <<tournament_participants, tournament_sessions, tournament_answers,
                    submit_response>>

boardVars == <<board_participants, board_answers, board_listing>>

\* the variables of the specifications further down
achievementVars == <<achievement_rows, ev, ev_response, ev_prev, eval_calls>>

questionVars == <<stored_questions, bank_cache, bank_response, bank_request, bank_calls,
                  bank_session, bank_answers, bank_scored>>

pointsVars == <<answer_data, answer_points, answer_pc>>

entryVars == <<entry_tournaments, entry_participants, entry_sessions, entry_answers,
               entry_last, entry_calls>>

laterVars == <<boardVars, achievementVars, questionVars, pointsVars, entryVars>>

\* What the actions of one group leave alone
nonBoardVars ==
    <<samplingVars, cacheVars, raceVars, tournamentVars, achievementVars, questionVars,
      pointsVars, entryVars>>

nonAchievementVars ==
    <<samplingVars, cacheVars, raceVars, tournamentVars, boardVars, questionVars,
      pointsVars, entryVars>>

nonQuestionVars ==
    <<samplingVars, cacheVars, raceVars, tournamentVars, boardVars, achievementVars,
      pointsVars, entryVars>>

nonPointsVars ==
    <<samplingVars, cacheVars, raceVars, tournamentVars, boardVars, achievementVars,
      questionVars, entryVars>>

nonEntryVars ==
    <<samplingVars, cacheVars, raceVars, tournamentVars, boardVars, achievementVars,
      questionVars, pointsVars>>

vars == <<samplingVars, cacheVars, raceVars, tournamentVars, laterVars>>

-----------------------------------------------------------------------------
(* Bounds of the model                                                     *)

MaxPool == 4        \* pools hold 0..MaxPool questions
MaxCount == 4       \* the count argument is at most MaxCount ...
MaxNegCount == 1    \* ... and at least -MaxNegCount
MaxReqCount == 2    \* a generate_questions request asks for 1..MaxReqCount questions
MaxCalls == 2       \* generate_questions calls in one behaviour
TickStep == 150     \* the clock advances in steps of TickStep seconds ...
MaxNow == 302       \* ... up to MaxNow, just past CACHE_DURATION
MaxSessions == 2    \* tournament sessions started in one behaviour
MaxAnswers == 2     \* tournament answers submitted in one behaviour
MaxEvalCalls == 2   \* evaluate_achievements calls in one behaviour
MaxBankCalls == 3   \* calls of the handlers of the questions table in one behaviour
MaxUpload == 2      \* questions in one bulk upload
MaxTimeTaken == 30  \* a submitted time_taken is within -MaxTimeTaken..MaxTimeTaken
MaxEntryCalls == 5  \* calls of the tournament entry handlers in one behaviour
MaxTournaments == 1 \* tournaments created in one behaviour

\* Value domains of the pool's questions (sets, not sizes)
TopicIds == {1, 2}
TimesAskedValues == {0, 1}

-----------------------------------------------------------------------------
(* Python helpers                                                          *)

Min(a, b) == IF a <= b THEN a ELSE b

Max(a, b) == IF a >= b THEN a ELSE b

\* s[:n] of a Python list: a negative n counts from the end.
PyPrefix(s, n) ==
    IF n >= 0 THEN SubSeq(s, 1, Min(n, Len(s)))
    ELSE SubSeq(s, 1, Max(Len(s) + n, 0))

Range(s) == {s[i] : i \in 1..Len(s)}

RemoveAt(s, i) == SubSeq(s, 1, i - 1) \o SubSeq(s, i + 1, Len(s))

\* random.shuffle(s): every permutation of s is a possible outcome.
Shuffle(s) == {[i \in 1..Len(s) |-> s[p[i]]] : p \in Permutations(1..Len(s))}

\* list.sort(key=lambda q: q.times_asked): stable, ascending.
RECURSIVE InsertByTimesAsked(_, _)
InsertByTimesAsked(q, s) ==
    IF s = <<>> THEN <<q>>
    ELSE IF Head(s).times_asked <= q.times_asked
         THEN <<Head(s)>> \o InsertByTimesAsked(q, Tail(s))
         ELSE <<q>> \o s

RECURSIVE SortByTimesAsked(_)
SortByTimesAsked(s) ==
    IF s = <<>> THEN <<>>
    ELSE InsertByTimesAsked(s[Len(s)], SortByTimesAsked(SubSeq(s, 1, Len(s) - 1)))

RECURSIVE SeqMax(_)
SeqMax(s) == IF Len(s) = 1 THEN s[1] ELSE Max(s[1], SeqMax(Tail(s)))

RECURSIVE Flatten(_)
Flatten(ss) == IF ss = <<>> THEN <<>> ELSE Head(ss) \o Flatten(Tail(ss))

-----------------------------------------------------------------------------
(* weighted_random_selection, main.py 2407-2447                            *)

\* weight of q: max_times_asked - q.times_asked, max_times_asked = max + 1
SelectionWeight(q, qs) ==
    (SeqMax([i \in 1..Len(qs) |-> qs[i].times_asked]) + 1) - q.times_asked

\* The loop of main.py 2434-2445: random.choices draws one of the available
\* questions of positive weight, which is then popped from the available list.
RECURSIVE WeightedDraws(_, _, _)
WeightedDraws(available, all, k) ==
    IF k <= 0 \/ available = <<>> THEN {<<>>}
    ELSE UNION {
            {<<available[i]>> \o rest :
                rest \in WeightedDraws(RemoveAt(available, i), all, k - 1)} :
            i \in {j \in 1..Len(available) : SelectionWeight(available[j], all) > 0}}

\* The set of lists weighted_random_selection(qs, n) can return.
weighted_random_selection(qs, n) ==
    IF qs = <<>> \/ n <= 0 THEN {<<>>}
    ELSE IF Len(qs) <= n THEN Shuffle(qs)
    ELSE WeightedDraws(qs, qs, Min(n, Len(qs)))

-----------------------------------------------------------------------------
(* smart_question_sampling, main.py 2449-2551                              *)

ProbeSize == 20          \* main.py 2466: only the first 20 questions are probed
EnhancedPercent == 70    \* main.py 2471: (zero_count / sample_size) >= 0.7

\* main.py 2466-2471
UseEnhancedRandomization(qs) ==
    LET sample_size == Min(ProbeSize, Len(qs))
        zero_count == Cardinality({i \in 1..sample_size : qs[i].times_asked = 0})
    IN  100 * zero_count >= EnhancedPercent * sample_size

\* main.py 2475-2480 and 2505: the keys of the dict, in insertion order
RECURSIVE TopicIdsList(_)
TopicIdsList(qs) ==
    IF qs = <<>> THEN <<>>
    ELSE LET before == TopicIdsList(SubSeq(qs, 1, Len(qs) - 1))
             t == qs[Len(qs)].topic_id
         IN  IF t \in Range(before) THEN before ELSE Append(before, t)

\* main.py 2475-2480: the questions of topic t, in pool order
GroupOfTopic(qs, t) == SelectSeq(qs, LAMBDA q : q.topic_id = t)

\* Mutant: the standard mode shuffles but does not sort.
TopicOrdersUnsorted(group, enhanced) ==
    IF enhanced THEN weighted_random_selection(group, Len(group))
    ELSE Shuffle(group)

\* main.py 2486-2493: the orders one topic's list can be left in
TopicOrders(group, enhanced) ==
    IF enhanced THEN weighted_random_selection(group, Len(group))
    ELSE {SortByTimesAsked(s) : s \in Shuffle(group)}

\* Mutant: the extra slot goes to one topic too many (i <= remaining_questions).
TopicCountOneTooMany(i, n, k) == (n \div k) + (IF i <= n % k THEN 1 ELSE 0)

\* main.py 2499-2510: slots of the i-th topic (i counts from 0, as enumerate does)
TopicCount(i, n, k) == (n \div k) + (IF i < n % k THEN 1 ELSE 0)

\* main.py 2513-2514
TopicSelected(available_questions, topic_count) ==
    PyPrefix(available_questions, Min(topic_count, Len(available_questions)))

\* Mutant: the top-up draws from the whole pool, selected questions included.
AllRemainingUnfiltered(qs, selected) == qs

\* main.py 2523
AllRemaining(qs, selected) == SelectSeq(qs, LAMBDA q : q \notin Range(selected))

\* main.py 2525-2533: the lists the top-up can add
TopUpChoices(all_remaining, remaining_needed, enhanced) ==
    IF enhanced /\ all_remaining # <<>>
    THEN weighted_random_selection(all_remaining, remaining_needed)
    ELSE {PyPrefix(SortByTimesAsked(s), remaining_needed) : s \in Shuffle(all_remaining)}

\* main.py 2460-2463: what the call returns when the pool has at most count questions
ReturnAllResults(qs) == {qs}

\* main.py 2538-2543: final shuffle, then selected_questions[:count]
FinalResults(selected, n) == {PyPrefix(s, n) : s \in Shuffle(selected)}

-----------------------------------------------------------------------------
(* The question store and the question cache of generate_questions         *)

NoRequest == [subject |-> "", topics |-> <<>>, difficulty |-> "", count |-> 0]

NoResponse == [kind |-> "none", ids |-> <<>>, subject |-> "", difficulty |-> ""]

\* The stored rows: one subject with two topics and three questions.
SubjectRows == {[id |-> 1, name |-> "Science"]}

TopicRows ==
    {[id |-> 1, subject_id |-> 1, name |-> "Physics Basics"],
     [id |-> 2, subject_id |-> 1, name |-> "Chemistry Elements"]}

QuestionRows ==
    {[id |-> 1, topic_id |-> 1, difficulty |-> "easy"],
     [id |-> 2, topic_id |-> 2, difficulty |-> "Easy"],
     [id |-> 3, topic_id |-> 2, difficulty |-> "hard"]}

QuestionIds == {q.id : q \in QuestionRows}

\* str.lower() / func.lower() on the difficulty strings in use
Lower(s) ==
    CASE s = "Easy" -> "easy"
      [] s = "Hard" -> "hard"
      [] OTHER -> s

\* The topic names in use, in string order ("Botany" < "Chemistry ..." < "Physics ...")
TopicNameRank(name) ==
    CASE name = "Botany" -> 1
      [] name = "Chemistry Elements" -> 2
      [] name = "Physics Basics" -> 3

\* sorted(request.topics)
RECURSIVE InsertTopicName(_, _)
InsertTopicName(name, s) ==
    IF s = <<>> THEN <<name>>
    ELSE IF TopicNameRank(Head(s)) <= TopicNameRank(name)
         THEN <<Head(s)>> \o InsertTopicName(name, Tail(s))
         ELSE <<name>> \o s

RECURSIVE SortedTopics(_)
SortedTopics(s) ==
    IF s = <<>> THEN <<>>
    ELSE InsertTopicName(s[Len(s)], SortedTopics(SubSeq(s, 1, Len(s) - 1)))

\* main.py 2302 and 78: f"{subject}_{sorted(topics)}_{difficulty}_{count}"
cache_key(r) == <<r.subject, SortedTopics(r.topics), r.difficulty, r.count>>

CACHE_DURATION == 300    \* main.py 57

\* Mutant: an entry is still served at the very second it expires (<=).
CacheFreshInclusive(cache, key, current_time) ==
    /\ key \in DOMAIN cache
    /\ current_time - cache[key].cache_time <= CACHE_DURATION

\* main.py 2305-2307
CacheFresh(cache, key, current_time) ==
    /\ key \in DOMAIN cache
    /\ current_time - cache[key].cache_time < CACHE_DURATION

\* Mutant: overwriting an entry keeps the old entry's time (a mixed entry).
CacheStoreKeepTime(cache, key, data, t) ==
    (key :> [cached_data |-> data,
             cache_time |-> IF key \in DOMAIN cache THEN cache[key].cache_time ELSE t])
        @@ cache

\* main.py 2393 and 106: question_cache[cache_key] = (result, time)
CacheStore(cache, key, data, t) ==
    (key :> [cached_data |-> data, cache_time |-> t]) @@ cache

\* main.py 2314-2321: the topics of the named subject whose name is requested
SubjectTopics(r) ==
    {t \in TopicRows :
        /\ \E sj \in SubjectRows : sj.id = t.subject_id /\ sj.name = r.subject
        /\ t.name \in Range(r.topics)}

SeqsOfSet(S) ==
    {f \in [1..Cardinality(S) -> S] : \A i, j \in 1..Cardinality(S) : i # j => f[i] # f[j]}

\* main.py 2333: ORDER BY times_asked ASC; rows of equal times_asked come in
\* an order the database chooses.
OrderedByTimesAsked(ids, asked) ==
    {s \in SeqsOfSet(ids) : \A i, j \in 1..Len(s) : i < j => asked[s[i]] <= asked[s[j]]}

\* Query.limit(n), n >= 0
Limit(s, n) == SubSeq(s, 1, Min(n, Len(s)))

\* main.py 2327-2350: the lists selected_questions can be (question ids)
SelectedChoices(r, asked) ==
    LET topic_ids == {t.id : t \in SubjectTopics(r)}
        in_topics == {q.id : q \in {x \in QuestionRows : x.topic_id \in topic_ids}}
        with_difficulty ==
            {q.id : q \in {x \in QuestionRows :
                              /\ x.topic_id \in topic_ids
                              /\ Lower(x.difficulty) = Lower(r.difficulty)}}
    IN  UNION {
          LET difficulty_questions == Limit(dq, r.count * 3)
          IN  IF Len(difficulty_questions) < r.count
              THEN {LET all_questions == Limit(aq, r.count * 2)
                    IN  IF Len(all_questions) >= r.count
                        THEN PyPrefix(all_questions, r.count)
                        ELSE all_questions :
                    aq \in OrderedByTimesAsked(in_topics, asked)}
              ELSE {PyPrefix(difficulty_questions, r.count)} :
          dq \in OrderedByTimesAsked(with_difficulty, asked)}

\* main.py 2359-2365: UPDATE questions SET times_asked = times_asked + 1 WHERE id IN (...)
BumpTimesAsked(asked, ids) ==
    [q \in DOMAIN asked |-> IF q \in ids THEN asked[q] + 1 ELSE asked[q]]

\* main.py 2372-2392: the response built from the selected rows
BuildResponse(r, selected) ==
    [kind |-> "stored", ids |-> selected, subject |-> r.subject, difficulty |-> r.difficulty]

\* Mutant: one sample question fewer than requested.
generate_sample_questions_short(r) ==
    [kind |-> "sample", ids |-> [i \in 1..(r.count - 1) |-> i],
     subject |-> r.subject, difficulty |-> r.difficulty]

\* main.py 2553-2579: count synthetic questions, ids 1..count
generate_sample_questions(r) ==
    [kind |-> "sample", ids |-> [i \in 1..r.count |-> i],
     subject |-> r.subject, difficulty |-> r.difficulty]

\* main.py 68-73, scaled: one popular combination, with the largest request count
popular_combos ==
    {[subject |-> "Science", topics |-> <<"Physics Basics", "Chemistry Elements">>,
      difficulty |-> "Easy", count |-> MaxReqCount]}

\* main.py 81-104: the rows pre_warm_cache can cache for a combination (no
\* difficulty filter, no ORDER BY: any count rows of the topics, in any order)
PreWarmChoices(c) ==
    LET topic_ids == {t.id : t \in SubjectTopics(c)}
        in_topics == {q.id : q \in {x \in QuestionRows : x.topic_id \in topic_ids}}
    IN  {Limit(s, c.count) : s \in SeqsOfSet(in_topics)}

\* main.py 95-106
PreWarmResponse(c, ids) ==
    [kind |-> "precached", ids |-> ids, subject |-> c.subject, difficulty |-> c.difficulty]

PreWarmRuns == 2    \* main.py 117-122: delayed_pre_warm runs pre_warm_cache twice

\* The requests served: every count over the two orders of the stored
\* subject's topics for difficulty "Easy" and over one order for "Hard", and one
\* request each with an unknown topic, with no topics and with no subject.
Requests ==
    [subject : {"Science"},
     topics : {<<"Physics Basics", "Chemistry Elements">>,
               <<"Chemistry Elements", "Physics Basics">>},
     difficulty : {"Easy"},
     count : 1..MaxReqCount]
    \cup [subject : {"Science"},
          topics : {<<"Physics Basics", "Chemistry Elements">>},
          difficulty : {"Hard"},
          count : 1..MaxReqCount]
    \cup {[subject |-> "Science", topics |-> <<"Physics Basics">>, difficulty |-> "Easy",
           count |-> MaxReqCount],
          [subject |-> "Science", topics |-> <<"Botany">>, difficulty |-> "Easy", count |-> 1],
          [subject |-> "Science", topics |-> <<>>, difficulty |-> "Easy", count |-> 1],
          [subject |-> "", topics |-> <<"Physics Basics">>, difficulty |-> "Easy", count |-> 1]}

CacheIdle ==
    /\ times_asked = [q \in QuestionIds |-> 0]
    /\ question_cache = <<>>
    /\ now = 0
    /\ request = NoRequest
    /\ response = NoResponse
    /\ from_cache = FALSE
    /\ calls = 0
    /\ prewarm_runs = 0


\* The request handlers that can be in flight together
Handlers == {"A", "B"}

\* The requests they serve: those of the largest count over the stored
\* subject's topics, and the request without topics
RaceRequests == {r \in Requests : r.count = MaxReqCount \/ r.topics = <<>>}

\* A handler before its request arrived; outcome is the return statement it
\* left through: "cached" (2309), "sample" (2299, 2325, 2354, 2400), "stored" (2396)
IdleHandler ==
    [pc |-> "idle", request |-> NoRequest, current_time |-> 0, selected |-> <<>>,
     outcome |-> "none", returned |-> NoResponse]

\* The pre-warm thread between runs
IdleWarm == [pc |-> "idle", combo |-> NoRequest, ids |-> <<>>]

RaceIdle ==
    /\ handlers = [h \in Handlers |-> IdleHandler]
    /\ warm = IdleWarm
    /\ last_write = <<>>

\* ---- tournament data ----

\* The tournaments, users and questions in the database
TournamentRows == {[id |-> 1, questions_count |-> 2]}

UserIds == {1, 2}

TournamentQuestionRows == {[id |-> 1, correct_answer |-> 1]}

\* What requests carry: path and body values, some naming no row
TournamentIdInputs == {1, 2}
QuestionIdInputs == {1, 2}
SelectedAnswers == {0, 1}
TimeTakenValues == {0, 10, 30}

RECURSIVE GCD(_, _)
GCD(a, b) == IF b = 0 THEN a ELSE GCD(b, a % b)

\* A Float column holding the quotient n / d, kept as a fraction in lowest
\* terms <<numerator, denominator>> (rounding of the float is not modelled)
Ratio(n, d) == <<n \div GCD(n, d), d \div GCD(n, d)>>

\* tournament_models.py 71-100: both users are registered for tournament 1
\* and have not played (rank 0 stands for NULL)
RegisteredParticipants ==
    [p \in {1, 2} |->
        [id |-> p, tournament_id |-> 1, user_id |-> p, has_played |-> FALSE, score |-> 0,
         accuracy |-> Ratio(0, 1), time_taken |-> 0, rank |-> 0]]

NoSubmitResponse ==
    [is_correct |-> FALSE, points_earned |-> 0, total_score |-> 0, questions_remaining |-> 0]

TournamentIdle ==
    /\ tournament_participants = RegisteredParticipants
    /\ tournament_sessions = <<>>
    /\ tournament_answers = <<>>
    /\ submit_response = NoSubmitResponse

\* ---- tournament listings ----

NoListing == [handler |-> "none", tournament_id |-> 0, entries |-> <<>>]

BoardIdle ==
    /\ board_participants = <<>>
    /\ board_answers = <<>>
    /\ board_listing = NoListing

\* ---- achievements ----

\* achievements_api.py 123-232: the ids of ACHIEVEMENT_DEFINITIONS
AchievementIds ==
    {"first_steps", "getting_started", "century_club", "perfectionist", "speed_demon",
     "sharpshooter", "quiz_master", "high_scorer", "legend", "tournament_champion"}

\* definition["name"] (without the badge)
AchievementName(id) ==
    CASE id = "first_steps" -> "First Steps"
      [] id = "getting_started" -> "Getting Started"
      [] id = "century_club" -> "Century Club"
      [] id = "perfectionist" -> "Perfectionist"
      [] id = "speed_demon" -> "Speed Demon"
      [] id = "sharpshooter" -> "Sharpshooter"
      [] id = "quiz_master" -> "Quiz Master"
      [] id = "high_scorer" -> "High Scorer"
      [] id = "legend" -> "Legend"
      [] id = "tournament_champion" -> "Tournament Champion"

NoGameData == [total_score |-> 0]

NoStats == [games_played |-> 0, win_rate |-> 0]

\* No call is being served
IdleEvaluation ==
    [pc |-> "done", user_id |-> 0, game_data |-> NoGameData, user_stats |-> NoStats,
     stats_failed |-> FALSE, existing_names |-> {}, existing_count |-> 0, next_rule |-> 1,
     processed_count |-> 0, elapsed |-> 0, checked |-> <<>>, pending |-> <<>>,
     new_achievements |-> <<>>, stopped |-> FALSE, failed |-> FALSE]

NoEvalResponse == [new_achievements |-> <<>>, error |-> FALSE, total_achievements |-> 0]

\* What is remembered of the call finished before the latest one
CallSummary(e) ==
    [user_id |-> e.user_id, game_data |-> e.game_data, user_stats |-> e.user_stats,
     stopped |-> e.stopped, failed |-> e.failed]

NoPreviousCall == CallSummary(IdleEvaluation)

AchievementsIdle ==
    /\ achievement_rows = <<>>
    /\ ev = IdleEvaluation
    /\ ev_response = NoEvalResponse
    /\ ev_prev = NoPreviousCall
    /\ eval_calls = 0

\* ---- the questions table ----

NoBankResponse == [kind |-> "none", questions |-> <<>>]

QuestionsIdle ==
    /\ stored_questions = <<>>
    /\ bank_cache = <<>>
    /\ bank_response = NoBankResponse
    /\ bank_request = NoRequest
    /\ bank_calls = 0
    /\ bank_session = <<>>
    /\ bank_answers = <<>>
    /\ bank_scored = <<>>

\* ---- the points of one answer ----

NoAnswerData == [question_id |-> 0, selected_answer |-> 0, time_taken |-> 0]

PointsIdle ==
    /\ answer_data = NoAnswerData
    /\ answer_points = 0
    /\ answer_pc = "idle"

\* ---- entering and playing a tournament ----

NoCall ==
    [handler |-> "none", tournament_id |-> 0, current_user |-> 0, session_id |-> 0,
     status_code |-> 0]

EntryIdle ==
    /\ entry_tournaments = <<>>
    /\ entry_participants = <<>>
    /\ entry_sessions = <<>>
    /\ entry_answers = <<>>
    /\ entry_last = NoCall
    /\ entry_calls = 0

LaterIdle ==
    /\ BoardIdle
    /\ AchievementsIdle
    /\ QuestionsIdle
    /\ PointsIdle
    /\ EntryIdle

-----------------------------------------------------------------------------
(* smart_question_sampling as a state machine                              *)

Pools ==
    UNION {{[i \in 1..n |-> [id |-> i, topic_id |-> tp[i], times_asked |-> ta[i]]] :
                tp \in [1..n -> TopicIds], ta \in [1..n -> TimesAskedValues]} :
           n \in 0..MaxPool}

SamplingIdle ==
    /\ questions = <<>>
    /\ count = 0
    /\ spc = "idle"
    /\ use_enhanced_randomization = FALSE
    /\ topic_ids_list = <<>>
    /\ topic_questions = <<>>
    /\ selected_questions = <<>>
    /\ additional_questions = <<>>
    /\ result = <<>>

InitSampling ==
    /\ CacheIdle
    /\ RaceIdle
    /\ TournamentIdle
    /\ LaterIdle
    /\ questions \in Pools
    /\ count \in (0 - MaxNegCount)..MaxCount
    /\ spc = "start"
    /\ use_enhanced_randomization = FALSE
    /\ topic_ids_list = <<>>
    /\ topic_questions = <<>>
    /\ selected_questions = <<>>
    /\ additional_questions = <<>>
    /\ result = <<>>

\* main.py 2457-2458: if not questions: return []
ReturnEmpty ==
    /\ UNCHANGED <<cacheVars, raceVars, tournamentVars, laterVars>>
    /\ spc = "start"
    /\ questions = <<>>
    /\ result' = <<>>
    /\ spc' = "done"
    /\ UNCHANGED <<questions, count, use_enhanced_randomization, topic_ids_list,
                   topic_questions, selected_questions, additional_questions>>

\* main.py 2460-2463: if len(questions) <= count: return questions
ReturnAll ==
    /\ UNCHANGED <<cacheVars, raceVars, tournamentVars, laterVars>>
    /\ spc = "start"
    /\ questions # <<>>
    /\ Len(questions) <= count
    /\ result' \in ReturnAllResults(questions)
    /\ spc' = "done"
    /\ UNCHANGED <<questions, count, use_enhanced_randomization, topic_ids_list,
                   topic_questions, selected_questions, additional_questions>>

\* main.py 2465-2496: probe, group by topic, order each topic's list
GroupAndOrder ==
    /\ UNCHANGED <<cacheVars, raceVars, tournamentVars, laterVars>>
    /\ spc = "start"
    /\ questions # <<>>
    /\ Len(questions) > count
    /\ LET enhanced == UseEnhancedRandomization(questions)
           ids == TopicIdsList(questions)
           orders == [t \in Range(ids) |-> TopicOrders(GroupOfTopic(questions, t), enhanced)]
       IN  /\ use_enhanced_randomization' = enhanced
           /\ topic_ids_list' = ids
           /\ topic_questions' \in
                {f \in [Range(ids) -> UNION {orders[t] : t \in Range(ids)}] :
                    \A t \in Range(ids) : f[t] \in orders[t]}
    /\ spc' = "distribute"
    /\ UNCHANGED <<questions, count, selected_questions, additional_questions, result>>

\* main.py 2498-2517: take each topic's slots from the front of its list
Distribute ==
    /\ UNCHANGED <<cacheVars, raceVars, tournamentVars, laterVars>>
    /\ spc = "distribute"
    /\ LET k == Len(topic_ids_list)
       IN  selected_questions' =
              Flatten([i \in 1..k |->
                  TopicSelected(topic_questions[topic_ids_list[i]],
                                TopicCount(i - 1, count, k))])
    /\ spc' = "topup"
    /\ UNCHANGED <<questions, count, use_enhanced_randomization, topic_ids_list,
                   topic_questions, additional_questions, result>>

\* main.py 2521-2535: fill up from the questions not selected yet
TopUp ==
    /\ UNCHANGED <<cacheVars, raceVars, tournamentVars, laterVars>>
    /\ spc = "topup"
    /\ Len(selected_questions) < count
    /\ LET remaining_needed == count - Len(selected_questions)
           all_remaining == AllRemaining(questions, selected_questions)
       IN  \E additional \in TopUpChoices(all_remaining, remaining_needed,
                                          use_enhanced_randomization) :
              /\ additional_questions' = additional
              /\ selected_questions' = selected_questions \o additional
    /\ spc' = "shuffle"
    /\ UNCHANGED <<questions, count, use_enhanced_randomization, topic_ids_list,
                   topic_questions, result>>

\* main.py 2521: nothing to fill
NoTopUp ==
    /\ UNCHANGED <<cacheVars, raceVars, tournamentVars, laterVars>>
    /\ spc = "topup"
    /\ ~(Len(selected_questions) < count)
    /\ spc' = "shuffle"
    /\ UNCHANGED <<questions, count, use_enhanced_randomization, topic_ids_list,
                   topic_questions, selected_questions, additional_questions, result>>

\* main.py 2537-2543: random.shuffle(selected_questions); return selected_questions[:count]
FinalShuffle ==
    /\ UNCHANGED <<cacheVars, raceVars, tournamentVars, laterVars>>
    /\ spc = "shuffle"
    /\ result' \in FinalResults(selected_questions, count)
    /\ spc' = "done"
    /\ UNCHANGED <<questions, count, use_enhanced_randomization, topic_ids_list,
                   topic_questions, selected_questions, additional_questions>>

NextSampling ==
    \/ ReturnEmpty
    \/ ReturnAll
    \/ GroupAndOrder
    \/ Distribute
    \/ TopUp
    \/ NoTopUp
    \/ FinalShuffle

SpecSampling == InitSampling /\ [][NextSampling]_vars

-----------------------------------------------------------------------------
(* generate_questions and pre_warm_cache as whole handlers                 *)

InitCache ==
    /\ SamplingIdle
    /\ CacheIdle
    /\ RaceIdle
    /\ TournamentIdle
    /\ LaterIdle

\* main.py 2287-2405, the whole handler (it has no await: requests do not
\* interleave with each other on the event loop). query_fails is the database
\* raising inside the try of 2312-2400; the batch UPDATE of 2361-2365 is taken
\* to succeed.
generate_questions ==
    /\ calls < MaxCalls
    /\ \E r \in Requests, query_fails \in BOOLEAN :
          /\ request' = r
          /\ calls' = calls + 1
          /\ from_cache' = (/\ r.topics # <<>>
                            /\ r.subject # ""
                            /\ CacheFresh(question_cache, cache_key(r), now))
          /\ IF r.topics = <<>> \/ r.subject = ""
             THEN \* 2297-2299
                  /\ response' = generate_sample_questions(r)
                  /\ UNCHANGED <<times_asked, question_cache>>
             ELSE IF CacheFresh(question_cache, cache_key(r), now)
             THEN \* 2305-2309
                  /\ response' = question_cache[cache_key(r)].cached_data
                  /\ UNCHANGED <<times_asked, question_cache>>
             ELSE IF query_fails \/ SubjectTopics(r) = {}
             THEN \* 2323-2325, 2398-2400
                  /\ response' = generate_sample_questions(r)
                  /\ UNCHANGED <<times_asked, question_cache>>
             ELSE \E selected \in SelectedChoices(r, times_asked) :
                    IF selected = <<>>
                    THEN \* 2352-2354
                         /\ response' = generate_sample_questions(r)
                         /\ UNCHANGED <<times_asked, question_cache>>
                    ELSE \* 2358-2396
                         /\ times_asked' = BumpTimesAsked(times_asked, Range(selected))
                         /\ response' = BuildResponse(r, selected)
                         /\ question_cache' =
                               CacheStore(question_cache, cache_key(r),
                                          BuildResponse(r, selected), now)
    /\ UNCHANGED <<now, prewarm_runs>>
    /\ UNCHANGED <<samplingVars, raceVars, tournamentVars, laterVars>>

\* main.py 60-113, one run of the background thread over the combinations.
\* delayed_pre_warm (117-122) sleeps 1 s and 2 s before its two runs: both
\* happen right after start, before the clock's first tick.
pre_warm_cache ==
    /\ prewarm_runs < PreWarmRuns
    /\ now = 0
    /\ prewarm_runs' = prewarm_runs + 1
    /\ \E c \in popular_combos :
          IF SubjectTopics(c) = {} THEN UNCHANGED question_cache
          ELSE \E ids \in PreWarmChoices(c) :
                 IF ids = <<>> THEN UNCHANGED question_cache
                 ELSE question_cache' =
                        CacheStore(question_cache, cache_key(c), PreWarmResponse(c, ids), now)
    /\ UNCHANGED <<times_asked, now, request, response, from_cache, calls>>
    /\ UNCHANGED <<samplingVars, raceVars, tournamentVars, laterVars>>

\* time passes
Tick ==
    /\ now + TickStep <= MaxNow
    /\ now' = now + TickStep
    /\ UNCHANGED <<times_asked, question_cache, request, response, from_cache, calls,
                   prewarm_runs>>
    /\ UNCHANGED <<samplingVars, raceVars, tournamentVars, laterVars>>

NextCache ==
    \/ generate_questions
    \/ pre_warm_cache
    \/ Tick

SpecCache == InitCache /\ [][NextCache]_vars

-----------------------------------------------------------------------------
(* Properties of generate_questions, checked under SpecCache               *)

\* C6 (as claimed): every generate_questions call that returns stored
\* (non-sample) questions adds exactly 1 to times_asked of each returned
\* question and leaves every other times_asked unchanged, cached or not.
C6_ReturnedQuestionsAskedOnceMore ==
    [][(calls' = calls + 1 /\ response'.kind # "sample") =>
          \A q \in QuestionIds :
              times_asked'[q] =
                  times_asked[q] + (IF q \in Range(response'.ids) THEN 1 ELSE 0)]_vars

\* C7: generate_questions is get-or-compute on question_cache. When the
\* request's key is present and now - insertion time < 300 the call returns
\* the cached value and recomputes nothing: the cache (the entry's insertion
\* time included) and every times_asked stay as they were. Otherwise the call
\* computes; a result of stored questions is stored as (result, now) under
\* the key and returned, and a sample result leaves the cache unchanged.
C7_GetOrCompute ==
    [][calls' = calls + 1 =>
          LET key == cache_key(request')
          IN  IF /\ key \in DOMAIN question_cache
                 /\ now - question_cache[key].cache_time < 300
              THEN /\ from_cache'
                   /\ response' = question_cache[key].cached_data
                   /\ question_cache' = question_cache
                   /\ times_asked' = times_asked
              ELSE /\ ~from_cache'
                   /\ response'.kind \in {"stored", "sample"}
                   /\ response'.kind = "stored" =>
                         /\ DOMAIN question_cache' = DOMAIN question_cache \cup {key}
                         /\ question_cache'[key] =
                               [cached_data |-> response', cache_time |-> now]
                         /\ \A k \in DOMAIN question_cache \ {key} :
                               question_cache'[k] = question_cache[k]
                   /\ response'.kind = "sample" => question_cache' = question_cache]_vars

\* C7 witness: a call was served from the cache after time had passed since
\* the entry was stored, and the entry still carries its insertion time.
C7_Witness ==
    /\ calls = 2
    /\ from_cache
    /\ response.kind = "stored"
    /\ cache_key(request) \in DOMAIN question_cache
    /\ question_cache[cache_key(request)].cached_data = response
    /\ question_cache[cache_key(request)].cache_time = 0
    /\ now = TickStep

\* The stored questions of the topics a request names
StoredInTopics(r) ==
    {q.id : q \in {x \in QuestionRows : x.topic_id \in {t.id : t \in SubjectTopics(r)}}}

-----------------------------------------------------------------------------
(* generate_questions statement by statement, with pre_warm_cache          *)
(*                                                                         *)
(* The handler has no await, so requests served by one event loop run one  *)
(* after the other: those are the behaviours below in which a handler's    *)
(* steps are consecutive. The steps are also interleaved freely, as they   *)
(* are between a handler and the pre_warm_cache thread.                    *)

InitRace ==
    /\ SamplingIdle
    /\ CacheIdle
    /\ RaceIdle
    /\ TournamentIdle
    /\ LaterIdle

\* main.py 2297-2309: validation, cache_key, current_time and the cache probe.
\* Entries are never deleted, so the membership test of 2305 and the read of
\* 2306 see one entry.
ReqCheck(h) ==
    /\ handlers[h].pc = "idle"
    /\ \E r \in RaceRequests :
          handlers' = [handlers EXCEPT ![h] =
              IF r.topics = <<>> \/ r.subject = ""
              THEN [@ EXCEPT !.pc = "done", !.request = r, !.outcome = "sample",
                             !.returned = generate_sample_questions(r)]
              ELSE IF CacheFresh(question_cache, cache_key(r), now)
              THEN [@ EXCEPT !.pc = "done", !.request = r, !.current_time = now,
                             !.outcome = "cached",
                             !.returned = question_cache[cache_key(r)].cached_data]
              ELSE [@ EXCEPT !.pc = "query", !.request = r, !.current_time = now]]
    /\ UNCHANGED <<warm, last_write>>
    /\ UNCHANGED <<samplingVars, cacheVars, tournamentVars, laterVars>>

\* main.py 2312-2354 and 2398-2400: the queries and the selection
ReqQuery(h) ==
    /\ handlers[h].pc = "query"
    /\ LET r == handlers[h].request
       IN  \E query_fails \in BOOLEAN :
             IF query_fails \/ SubjectTopics(r) = {}
             THEN handlers' = [handlers EXCEPT ![h] =
                      [@ EXCEPT !.pc = "done", !.outcome = "sample",
                                !.returned = generate_sample_questions(r)]]
             ELSE \E selected \in SelectedChoices(r, times_asked) :
                    handlers' = [handlers EXCEPT ![h] =
                        IF selected = <<>>
                        THEN [@ EXCEPT !.pc = "done", !.outcome = "sample",
                                       !.returned = generate_sample_questions(r)]
                        ELSE [@ EXCEPT !.pc = "update", !.selected = selected]]
    /\ UNCHANGED <<warm, last_write>>
    /\ UNCHANGED <<samplingVars, cacheVars, tournamentVars, laterVars>>

\* main.py 2358-2369: the batch UPDATE and its commit
ReqUpdate(h) ==
    /\ handlers[h].pc = "update"
    /\ times_asked' = BumpTimesAsked(times_asked, Range(handlers[h].selected))
    /\ handlers' = [handlers EXCEPT ![h].pc = "store"]
    /\ UNCHANGED <<warm, last_write>>
    /\ UNCHANGED <<question_cache, now, request, response, from_cache, calls, prewarm_runs>>
    /\ UNCHANGED <<samplingVars, tournamentVars, laterVars>>

\* main.py 2372-2396: build the result, store it with the time read at 2303,
\* return it
ReqStore(h) ==
    /\ handlers[h].pc = "store"
    /\ LET r == handlers[h].request
           res == BuildResponse(r, handlers[h].selected)
       IN  /\ question_cache' =
                 CacheStore(question_cache, cache_key(r), res, handlers[h].current_time)
           /\ last_write' =
                 (cache_key(r) :> [writer |-> h, cached_data |-> res,
                                   cache_time |-> handlers[h].current_time]) @@ last_write
           /\ handlers' = [handlers EXCEPT ![h] =
                 [@ EXCEPT !.pc = "done", !.outcome = "stored", !.returned = res]]
    /\ UNCHANGED warm
    /\ UNCHANGED <<times_asked, now, request, response, from_cache, calls, prewarm_runs>>
    /\ UNCHANGED <<samplingVars, tournamentVars, laterVars>>

\* main.py 78-93: the thread's queries for a combination. delayed_pre_warm
\* (117-122) runs within seconds of the start, before the clock's first tick.
WarmQuery ==
    /\ warm.pc = "idle"
    /\ prewarm_runs < PreWarmRuns
    /\ now = 0
    /\ \E c \in popular_combos :
          IF SubjectTopics(c) = {}
          THEN /\ prewarm_runs' = prewarm_runs + 1
               /\ UNCHANGED warm
          ELSE \E ids \in PreWarmChoices(c) :
                 IF ids = <<>>
                 THEN /\ prewarm_runs' = prewarm_runs + 1
                      /\ UNCHANGED warm
                 ELSE /\ warm' = [pc |-> "store", combo |-> c, ids |-> ids]
                      /\ UNCHANGED prewarm_runs
    /\ UNCHANGED <<handlers, last_write>>
    /\ UNCHANGED <<times_asked, question_cache, now, request, response, from_cache, calls>>
    /\ UNCHANGED <<samplingVars, tournamentVars, laterVars>>

\* main.py 95-106: the thread's write, with time.time() read at the write
WarmStore ==
    /\ warm.pc = "store"
    /\ LET res == PreWarmResponse(warm.combo, warm.ids)
       IN  /\ question_cache' = CacheStore(question_cache, cache_key(warm.combo), res, now)
           /\ last_write' =
                 (cache_key(warm.combo) :> [writer |-> "pre_warm_cache", cached_data |-> res,
                                            cache_time |-> now]) @@ last_write
    /\ warm' = [warm EXCEPT !.pc = "idle"]
    /\ prewarm_runs' = prewarm_runs + 1
    /\ UNCHANGED handlers
    /\ UNCHANGED <<times_asked, now, request, response, from_cache, calls>>
    /\ UNCHANGED <<samplingVars, tournamentVars, laterVars>>

\* time passes, once the pre-warm thread is through
RaceTick ==
    /\ prewarm_runs = PreWarmRuns
    /\ now + TickStep <= MaxNow
    /\ now' = now + TickStep
    /\ UNCHANGED raceVars
    /\ UNCHANGED <<times_asked, question_cache, request, response, from_cache, calls,
                   prewarm_runs>>
    /\ UNCHANGED <<samplingVars, tournamentVars, laterVars>>

NextRace ==
    \/ \E h \in Handlers : ReqCheck(h)
    \/ \E h \in Handlers : ReqQuery(h)
    \/ \E h \in Handlers : ReqUpdate(h)
    \/ \E h \in Handlers : ReqStore(h)
    \/ WarmQuery
    \/ WarmStore
    \/ RaceTick

SpecRace == InitRace /\ [][NextRace]_vars

-----------------------------------------------------------------------------
(* Properties of the interleaved handlers, checked under SpecRace          *)

AllFinished ==
    /\ \A h \in Handlers : handlers[h].pc = "done"
    /\ warm.pc = "idle"
    /\ prewarm_runs = PreWarmRuns

\* C8: however the steps of two generate_questions requests and of
\* pre_warm_cache interleave, a request that computed returns the result it
\* computed itself (built from its own selection, or its own sample), and once
\* all of them have finished every cache entry is exactly the pair (data, time)
\* of the latest write to its key: a handler's own result with the time that
\* handler read, or the pre-warm thread's rows; never a mixture.
C8_LastWriterWins ==
    /\ \A h \in Handlers :
          handlers[h].pc = "done" =>
              /\ handlers[h].outcome = "stored" =>
                    handlers[h].returned =
                        BuildResponse(handlers[h].request, handlers[h].selected)
              /\ handlers[h].outcome = "sample" =>
                    handlers[h].returned = generate_sample_questions(handlers[h].request)
    /\ AllFinished =>
          /\ DOMAIN question_cache = DOMAIN last_write
          /\ \A k \in DOMAIN last_write :
                /\ question_cache[k] =
                      [cached_data |-> last_write[k].cached_data,
                       cache_time |-> last_write[k].cache_time]
                /\ last_write[k].writer \in Handlers =>
                      LET w == handlers[last_write[k].writer]
                      IN  /\ cache_key(w.request) = k
                          /\ question_cache[k].cached_data = w.returned
                          /\ question_cache[k].cache_time = w.current_time

\* C8 witness: both requests missed the cache for the same key at the same
\* time (so neither saw the other's entry), both computed and stored, with
\* different results; the pre-warm thread wrote too; all have finished.
C8_Witness ==
    /\ AllFinished
    /\ \A h \in Handlers : handlers[h].outcome = "stored"
    /\ cache_key(handlers["A"].request) = cache_key(handlers["B"].request)
    /\ cache_key(handlers["A"].request) = cache_key(CHOOSE c \in popular_combos : TRUE)
    /\ handlers["A"].current_time = handlers["B"].current_time
    /\ handlers["A"].returned # handlers["B"].returned
    /\ last_write[cache_key(handlers["A"].request)].writer = "A"
    /\ times_asked[1] = 2

-----------------------------------------------------------------------------
(* Tournament sessions: start, submit answer, complete                     *)
(* (tournament_api.py 1124-1337; a request that ends in an HTTPException    *)
(* changes nothing and is no step)                                         *)

Init ==
    /\ SamplingIdle
    /\ CacheIdle
    /\ RaceIdle
    /\ TournamentIdle
    /\ LaterIdle

\* tournament_api.py 1153-1157 with the column defaults of
\* tournament_models.py 102-121
NewSession(id, tournament_id, participant_id, total_questions) ==
    [id |-> id, tournament_id |-> tournament_id, participant_id |-> participant_id,
     total_questions |-> total_questions, questions_answered |-> 0, correct_answers |-> 0,
     total_score |-> 0, time_spent |-> 0, accuracy |-> Ratio(0, 1), is_completed |-> FALSE]

\* tournament_api.py 1124-1171
start_tournament_session ==
    /\ Len(tournament_sessions) < MaxSessions
    /\ \E tournament_id \in TournamentIdInputs, current_user \in UserIds :
          \E p \in DOMAIN tournament_participants :
             /\ tournament_participants[p].tournament_id = tournament_id
             /\ tournament_participants[p].user_id = current_user
             /\ ~tournament_participants[p].has_played
             /\ \E tournament \in TournamentRows :
                   /\ tournament.id = tournament_id
                   /\ tournament_sessions' =
                         Append(tournament_sessions,
                                NewSession(Len(tournament_sessions) + 1, tournament_id, p,
                                           tournament.questions_count))
    /\ UNCHANGED <<tournament_participants, tournament_answers, submit_response>>
    /\ UNCHANGED <<samplingVars, cacheVars, raceVars, laterVars>>

\* Mutant: the speed bonus is not clamped at 0.
speed_bonus_unclamped(time_taken) == 50 - (time_taken * 2)

\* tournament_api.py 1221
speed_bonus(time_taken) == Max(0, 50 - (time_taken * 2))

\* tournament_api.py 1216-1222
points_earned(is_correct, time_taken) ==
    IF is_correct THEN 100 + speed_bonus(time_taken) ELSE 0

\* Mutant: the time of a wrong answer is not added to time_spent.
UpdateSessionStatsCorrectTimeOnly(session, is_correct, points, time_taken) ==
    LET answered == session.questions_answered + 1
        correct == session.correct_answers + (IF is_correct THEN 1 ELSE 0)
    IN  [session EXCEPT
            !.questions_answered = answered,
            !.correct_answers = correct,
            !.total_score = @ + points,
            !.time_spent = @ + (IF is_correct THEN time_taken ELSE 0),
            !.accuracy = Ratio(correct * 100, answered)]

\* tournament_api.py 1237-1242
UpdateSessionStats(session, is_correct, points, time_taken) ==
    LET answered == session.questions_answered + 1
        correct == session.correct_answers + (IF is_correct THEN 1 ELSE 0)
    IN  [session EXCEPT
            !.questions_answered = answered,
            !.correct_answers = correct,
            !.total_score = @ + points,
            !.time_spent = @ + time_taken,
            !.accuracy = Ratio(correct * 100, answered)]

\* tournament_api.py 1173-1251
submit_tournament_answer ==
    /\ Len(tournament_answers) < MaxAnswers
    /\ \E tournament_id \in TournamentIdInputs, session_id \in DOMAIN tournament_sessions,
          current_user \in UserIds, question_id \in QuestionIdInputs,
          selected_answer \in SelectedAnswers, time_taken \in TimeTakenValues :
          LET session == tournament_sessions[session_id]
          IN  /\ session.tournament_id = tournament_id
              /\ tournament_participants[session.participant_id].user_id = current_user
              /\ \E question \in TournamentQuestionRows :
                    /\ question.id = question_id
                    /\ LET is_correct == selected_answer = question.correct_answer
                           points == points_earned(is_correct, time_taken)
                           updated == UpdateSessionStats(session, is_correct, points, time_taken)
                       IN  /\ tournament_answers' =
                                 Append(tournament_answers,
                                        [session_id |-> session_id,
                                         question_id |-> question_id,
                                         selected_answer |-> selected_answer,
                                         is_correct |-> is_correct,
                                         time_taken |-> time_taken,
                                         points_earned |-> points])
                           /\ tournament_sessions' =
                                 [tournament_sessions EXCEPT ![session_id] = updated]
                           /\ submit_response' =
                                 [is_correct |-> is_correct,
                                  points_earned |-> points,
                                  total_score |-> updated.total_score,
                                  questions_remaining |->
                                      updated.total_questions - updated.questions_answered]
    /\ UNCHANGED tournament_participants
    /\ UNCHANGED <<samplingVars, cacheVars, raceVars, laterVars>>

\* tournament_api.py 1314-1322: participants of the tournament who have played
\* and scored more, plus one
RankOf(participants, p) ==
    Cardinality({o \in DOMAIN participants :
                    /\ participants[o].tournament_id = participants[p].tournament_id
                    /\ participants[o].has_played
                    /\ participants[o].score > participants[p].score}) + 1

\* Mutant: the results are copied but has_played is left as it was.
ParticipantResultsNotPlayed(participant, session) ==
    [participant EXCEPT !.score = session.total_score,
                        !.accuracy = session.accuracy,
                        !.time_taken = session.time_spent]

\* tournament_api.py 1305-1308
ParticipantResults(participant, session) ==
    [participant EXCEPT !.has_played = TRUE,
                        !.score = session.total_score,
                        !.accuracy = session.accuracy,
                        !.time_taken = session.time_spent]

\* tournament_api.py 1253-1337 (completed_at and played_at are not modelled)
complete_tournament_session ==
    /\ \E tournament_id \in TournamentIdInputs, session_id \in DOMAIN tournament_sessions,
          current_user \in UserIds :
          LET session == tournament_sessions[session_id]
              p == session.participant_id
              played == [tournament_participants EXCEPT ![p] =
                            ParticipantResults(@, session)]
          IN  /\ session.tournament_id = tournament_id
              /\ tournament_participants[p].user_id = current_user
              /\ tournament_sessions' =
                    [tournament_sessions EXCEPT ![session_id].is_completed = TRUE]
              /\ tournament_participants' =
                    [played EXCEPT ![p].rank = RankOf(played, p)]
    /\ UNCHANGED <<tournament_answers, submit_response>>
    /\ UNCHANGED <<samplingVars, cacheVars, raceVars, laterVars>>

Next ==
    \/ start_tournament_session
    \/ submit_tournament_answer
    \/ complete_tournament_session

Spec == Init /\ [][Next]_vars

-----------------------------------------------------------------------------
(* Properties of the tournament sessions, checked under Spec               *)

CorrectAnswerOf(question_id) ==
    (CHOOSE q \in TournamentQuestionRows : q.id = question_id).correct_answer

LastAnswer == tournament_answers[Len(tournament_answers)]

\* C9: the points of every recorded answer, and the points the latest call
\* returned, are 0 when the selected option differs from the question's
\* correct_answer and 100 + max(0, 50 - 2*time_taken) when it equals it: 150
\* for a correct answer with time_taken = 0 and 130 with time_taken = 10.
C9_PointsOfAnAnswer ==
    /\ \A i \in 1..Len(tournament_answers) :
          LET a == tournament_answers[i]
          IN  /\ a.selected_answer # CorrectAnswerOf(a.question_id) => a.points_earned = 0
              /\ a.selected_answer = CorrectAnswerOf(a.question_id) =>
                    /\ a.points_earned =
                          100 + (IF 50 - 2 * a.time_taken > 0 THEN 50 - 2 * a.time_taken ELSE 0)
                    /\ a.time_taken = 0 => a.points_earned = 150
                    /\ a.time_taken = 10 => a.points_earned = 130
    /\ tournament_answers # <<>> =>
          /\ submit_response.points_earned = LastAnswer.points_earned
          /\ submit_response.is_correct =
                (LastAnswer.selected_answer = CorrectAnswerOf(LastAnswer.question_id))

\* C9 witness: a correct answer after 0 seconds and then a correct answer
\* after 10 seconds have been submitted and recorded.
C9_Witness ==
    /\ Len(tournament_answers) = 2
    /\ tournament_answers[1].selected_answer = CorrectAnswerOf(tournament_answers[1].question_id)
    /\ tournament_answers[1].time_taken = 0
    /\ tournament_answers[2].selected_answer = CorrectAnswerOf(tournament_answers[2].question_id)
    /\ tournament_answers[2].time_taken = 10
    /\ submit_response.is_correct

RECURSIVE SumOfField(_, _)
SumOfField(rows, field) ==
    IF rows = <<>> THEN 0 ELSE Head(rows)[field] + SumOfField(Tail(rows), field)

AnswersOfSession(session_id) ==
    SelectSeq(tournament_answers, LAMBDA a : a.session_id = session_id)

CorrectAnswersOfSession(session_id) ==
    SelectSeq(tournament_answers, LAMBDA a : a.session_id = session_id /\ a.is_correct)

\* C10: after any sequence of submit_tournament_answer calls (with sessions
\* started and completed in between) every session's total_score is the sum
\* of points_earned over its recorded answers, questions_answered their
\* number, correct_answers the number of correct ones, time_spent the sum of
\* their time_taken, and accuracy is correct_answers / questions_answered * 100,
\* and 0 while the session has no recorded answer.
C10_SessionAggregates ==
    \A s \in DOMAIN tournament_sessions :
        LET session == tournament_sessions[s]
            recorded == AnswersOfSession(s)
        IN  /\ session.total_score = SumOfField(recorded, "points_earned")
            /\ session.questions_answered = Len(recorded)
            /\ session.correct_answers = Len(CorrectAnswersOfSession(s))
            /\ session.time_spent = SumOfField(recorded, "time_taken")
            /\ session.accuracy[2] > 0
            /\ IF Len(recorded) = 0
               THEN session.accuracy[1] = 0
               ELSE session.accuracy[1] * session.questions_answered =
                        session.correct_answers * 100 * session.accuracy[2]

\* C10 witness: next to another session, a session holds a wrong answer
\* after 30 seconds, was completed with score 0, and then took a correct
\* answer after 10 seconds (accuracy 50).
C10_Witness ==
    /\ Len(tournament_sessions) = 2
    /\ \E s \in DOMAIN tournament_sessions :
          /\ Len(AnswersOfSession(s)) = 2
          /\ tournament_sessions[s].is_completed
          /\ tournament_sessions[s].correct_answers = 1
          /\ tournament_sessions[s].accuracy = <<50, 1>>
          /\ tournament_sessions[s].total_score = 130
          /\ tournament_sessions[s].time_spent = 40
          /\ tournament_participants[tournament_sessions[s].participant_id].score = 0

\* C11 (as claimed): a session is finalized exactly once: a further
\* complete_tournament_session call on a session that is already completed
\* (the only step that leaves the sessions and the answers as they are and
\* is not a stutter) changes neither score, accuracy, time_taken nor rank of
\* the participant.
C11_FinalizedExactlyOnce ==
    [][(/\ tournament_sessions' = tournament_sessions
        /\ tournament_answers' = tournament_answers)
          => tournament_participants' = tournament_participants]_vars

\* C12: in every reachable state a participant whose rank is set (not NULL,
\* which is 0 here) has has_played = TRUE.
C12_RankOnlyAfterPlay ==
    \A p \in DOMAIN tournament_participants :
        tournament_participants[p].rank # 0 => tournament_participants[p].has_played

\* C12 witness: one participant has completed a session and holds a rank,
\* the other has a session with an answer but has not completed and has none.
C12_Witness ==
    \E p, o \in DOMAIN tournament_participants :
        /\ tournament_participants[p].has_played
        /\ tournament_participants[p].rank = 1
        /\ ~tournament_participants[o].has_played
        /\ tournament_participants[o].rank = 0
        /\ \E s \in DOMAIN tournament_sessions :
              /\ tournament_sessions[s].participant_id = o
              /\ tournament_sessions[s].questions_answered > 0

\* C13 (as claimed): the stored rank of every played participant is 1 plus
\* the number of played participants of its tournament with a strictly
\* higher score.
C13_StoredRankIsPosition ==
    \A p \in DOMAIN tournament_participants :
        tournament_participants[p].has_played =>
            tournament_participants[p].rank =
                1 + Cardinality({o \in DOMAIN tournament_participants :
                        /\ tournament_participants[o].tournament_id =
                              tournament_participants[p].tournament_id
                        /\ tournament_participants[o].has_played
                        /\ tournament_participants[o].score >
                              tournament_participants[p].score})

\* The sessions of a participant that are completed
CompletedSessionsOf(sessions, p) ==
    {s \in DOMAIN sessions : sessions[s].participant_id = p /\ sessions[s].is_completed}

\* C24 (as claimed): at most one session of a participant is ever completed,
\* and once has_played is true no call changes the participant's score,
\* accuracy or time_taken.
C24_PlayedOnce ==
    [][/\ \A p \in DOMAIN tournament_participants :
             Cardinality(CompletedSessionsOf(tournament_sessions', p)) <= 1
       /\ \A p \in DOMAIN tournament_participants :
             tournament_participants[p].has_played =>
                /\ tournament_participants'[p].score = tournament_participants[p].score
                /\ tournament_participants'[p].accuracy = tournament_participants[p].accuracy
                /\ tournament_participants'[p].time_taken =
                      tournament_participants[p].time_taken]_vars

\* C26 (as claimed): the counters of a completed session never change.
C26_CompletedSessionFrozen ==
    [][\A s \in DOMAIN tournament_sessions :
          tournament_sessions[s].is_completed =>
             /\ tournament_sessions'[s].questions_answered =
                   tournament_sessions[s].questions_answered
             /\ tournament_sessions'[s].correct_answers =
                   tournament_sessions[s].correct_answers
             /\ tournament_sessions'[s].total_score = tournament_sessions[s].total_score
             /\ tournament_sessions'[s].time_spent = tournament_sessions[s].time_spent
             /\ tournament_sessions'[s].accuracy = tournament_sessions[s].accuracy]_vars

\* C27 (as claimed): a session never has more answers than questions, no
\* question is answered twice in a session, and the questions_remaining a
\* submit returns is never negative.
C27_AnswersWithinQuestions ==
    /\ \A s \in DOMAIN tournament_sessions :
          tournament_sessions[s].questions_answered <= tournament_sessions[s].total_questions
    /\ \A i, j \in 1..Len(tournament_answers) :
          (/\ i # j
           /\ tournament_answers[i].session_id = tournament_answers[j].session_id)
              => tournament_answers[i].question_id # tournament_answers[j].question_id
    /\ submit_response.questions_remaining >= 0

-----------------------------------------------------------------------------
(* Tournament listings: the two get_tournament_leaderboard handlers and    *)
(* get_tournament_detailed_results, applied to tables of participants who  *)
(* have answered and completed                                             *)

BoardParticipantIds == {1, 2, 3}

\* The tournaments in the database
BoardTournamentIds == {1, 2}

\* An answer as submit_tournament_answer records it (tournament_api.py 1225-1232)
SheetAnswer(is_correct, time_taken) ==
    [is_correct |-> is_correct, time_taken |-> time_taken,
     points_earned |-> points_earned(is_correct, time_taken)]

\* The answers a participant's session can hold: none; two correct at once
\* (300 points, accuracy 100); three correct after 30 s each and one wrong
\* (300 points, accuracy 75); one correct after 30 s (100 points, accuracy
\* 100); one wrong and one correct after 30 s (100 points, accuracy 50)
AnswerSheets ==
    {<<>>,
     <<SheetAnswer(TRUE, 0), SheetAnswer(TRUE, 0)>>,
     <<SheetAnswer(TRUE, 30), SheetAnswer(TRUE, 30), SheetAnswer(TRUE, 30),
       SheetAnswer(FALSE, 0)>>,
     <<SheetAnswer(TRUE, 30)>>,
     <<SheetAnswer(FALSE, 0), SheetAnswer(TRUE, 30)>>}

CorrectCount(sheet) == Len(SelectSeq(sheet, LAMBDA a : a.is_correct))

\* The participant row after the session with these answers was completed
\* (tournament_api.py 1237-1242, 1305-1308), or the row as registered
BoardParticipant(id, tournament_id, has_played, sheet) ==
    [id |-> id, tournament_id |-> tournament_id, user_id |-> id, has_played |-> has_played,
     score |-> IF has_played THEN SumOfField(sheet, "points_earned") ELSE 0,
     accuracy |-> IF has_played /\ sheet # <<>>
                  THEN Ratio(CorrectCount(sheet) * 100, Len(sheet))
                  ELSE Ratio(0, 1),
     time_taken |-> IF has_played THEN SumOfField(sheet, "time_taken") ELSE 0]

\* Participants 1 and 2 are in tournament 1, participant 3 in tournament 1 or 2
InitBoard ==
    /\ SamplingIdle
    /\ CacheIdle
    /\ RaceIdle
    /\ TournamentIdle
    /\ board_answers \in [BoardParticipantIds -> AnswerSheets]
    /\ \E played \in [BoardParticipantIds -> BOOLEAN], tournament_of_3 \in BoardTournamentIds :
          board_participants =
              [p \in BoardParticipantIds |->
                  BoardParticipant(p, IF p = 3 THEN tournament_of_3 ELSE 1, played[p],
                                   board_answers[p])]
    /\ board_listing = NoListing
    /\ AchievementsIdle
    /\ QuestionsIdle
    /\ PointsIdle
    /\ EntryIdle

\* a < b for two Float columns
RatioLess(a, b) == a[1] * b[2] < b[1] * a[2]

\* filter(tournament_id == ..., has_played == True)
PlayedParticipants(tournament_id) ==
    {p \in DOMAIN board_participants :
        /\ board_participants[p].tournament_id = tournament_id
        /\ board_participants[p].has_played}

\* tournament_api.py 770-774: ORDER BY score DESC, accuracy DESC, time_taken ASC;
\* x has to come before y
BasicOrderBefore(x, y) ==
    \/ x.score > y.score
    \/ x.score = y.score /\ RatioLess(y.accuracy, x.accuracy)
    \/ x.score = y.score /\ x.accuracy = y.accuracy /\ x.time_taken < y.time_taken

\* tournament_api.py 1376: ORDER BY score DESC
ScoreOrderBefore(x, y) == x.score > y.score

\* tournament_api.py 1487: totals computed from the answers, sorted by
\* (-total_score, -correct_answers, time_taken)
DetailedOrderBefore(x, y) ==
    \/ x.total_score > y.total_score
    \/ x.total_score = y.total_score /\ x.correct_answers > y.correct_answers
    \/ x.total_score = y.total_score /\ x.correct_answers = y.correct_answers
          /\ x.time_taken < y.time_taken

\* The orders of the rows ids a query or a stable sort can deliver: rows that
\* the ordering does not separate come in an order the database chooses
RowOrders(ids, row(_), Before(_, _)) ==
    {s \in SeqsOfSet(ids) : \A i, j \in 1..Len(s) : i < j => ~Before(row(s[j]), row(s[i]))}

\* tournament_api.py 776-792 and 1380-1392: the entries, numbered from 1
LeaderboardEntries(order) ==
    [i \in 1..Len(order) |->
        [participant_id |-> order[i], rank |-> i,
         score |-> board_participants[order[i]].score,
         accuracy |-> board_participants[order[i]].accuracy,
         time_taken |-> board_participants[order[i]].time_taken]]

\* tournament_api.py 1455-1461: the totals of a participant's answers
DetailedTotals(p) ==
    [participant_id |-> p,
     total_score |-> SumOfField(board_answers[p], "points_earned"),
     correct_answers |-> CorrectCount(board_answers[p]),
     time_taken |-> SumOfField(board_answers[p], "time_taken")]

\* tournament_api.py 1489-1493
DetailedEntries(order) ==
    [i \in 1..Len(order) |-> [rank |-> i] @@ DetailedTotals(order[i])]

\* tournament_api.py 759-794, the handler the router serves: it is registered
\* first for GET /{tournament_id}/leaderboard
get_tournament_leaderboard ==
    /\ \E tournament_id \in BoardTournamentIds :
          \E order \in RowOrders(PlayedParticipants(tournament_id),
                                 LAMBDA p : board_participants[p], BasicOrderBefore) :
             board_listing' = [handler |-> "leaderboard", tournament_id |-> tournament_id,
                               entries |-> LeaderboardEntries(order)]
    /\ UNCHANGED <<board_participants, board_answers>>
    /\ UNCHANGED nonBoardVars

\* tournament_api.py 1352-1409, the second definition of
\* get_tournament_leaderboard, which the module's name is bound to (every
\* participant's user exists)
get_tournament_leaderboard_redefined ==
    /\ \E tournament_id \in BoardTournamentIds :
          \E order \in RowOrders(PlayedParticipants(tournament_id),
                                 LAMBDA p : board_participants[p], ScoreOrderBefore) :
             board_listing' = [handler |-> "leaderboard_redefined",
                               tournament_id |-> tournament_id,
                               entries |-> LeaderboardEntries(order)]
    /\ UNCHANGED <<board_participants, board_answers>>
    /\ UNCHANGED nonBoardVars

\* tournament_api.py 1411-1507 (every played participant has its user and
\* its session)
get_tournament_detailed_results ==
    /\ \E tournament_id \in BoardTournamentIds :
          \E order \in RowOrders(PlayedParticipants(tournament_id),
                                 DetailedTotals, DetailedOrderBefore) :
             board_listing' = [handler |-> "detailed_results", tournament_id |-> tournament_id,
                               entries |-> DetailedEntries(order)]
    /\ UNCHANGED <<board_participants, board_answers>>
    /\ UNCHANGED nonBoardVars

NextBoard ==
    \/ get_tournament_leaderboard
    \/ get_tournament_leaderboard_redefined
    \/ get_tournament_detailed_results

SpecBoard == InitBoard /\ [][NextBoard]_vars

-----------------------------------------------------------------------------
(* Properties of the listings, checked under SpecBoard                     *)

ListedIds == {board_listing.entries[i].participant_id : i \in 1..Len(board_listing.entries)}

\* C14 (as claimed): every leaderboard listing holds exactly the
\* tournament's participants with has_played = TRUE, numbered 1..n without
\* gaps, ordered by score descending and, among equal scores, by accuracy
\* descending.
C14_LeaderboardOrder ==
    board_listing.handler \in {"leaderboard", "leaderboard_redefined"} =>
        LET e == board_listing.entries
        IN  /\ ListedIds = PlayedParticipants(board_listing.tournament_id)
            /\ Len(e) = Cardinality(ListedIds)
            /\ \A i \in 1..Len(e) : e[i].rank = i
            /\ \A i, j \in 1..Len(e) :
                  i < j =>
                      /\ e[i].score >= e[j].score
                      /\ e[i].score = e[j].score =>
                            e[i].accuracy[1] * e[j].accuracy[2] >=
                                e[j].accuracy[1] * e[i].accuracy[2]

\* C15 (as claimed, with every tie that an ordering leaves open counted as
\* agreeing): one tie-break is used globally: for a leaderboard that the
\* router serves, get_tournament_detailed_results can list the same
\* tournament with every two played participants in the same relative order.
C15_OneTieBreak ==
    board_listing.handler = "leaderboard" =>
        \E order \in RowOrders(PlayedParticipants(board_listing.tournament_id),
                               DetailedTotals, DetailedOrderBefore) :
            \A i \in 1..Len(order) :
                order[i] = board_listing.entries[i].participant_id

-----------------------------------------------------------------------------
(* evaluate_achievements, one rule check per step                          *)
(* (achievements_api.py 234-345; the handler has no await, so calls are    *)
(* served one after the other)                                             *)

\* A dict without keys
EmptyDict == [k \in {} |-> 0]

\* dict.get(key, default)
Get(d, key, default) == IF key \in DOMAIN d THEN d[key] ELSE default

timeout_seconds == 8              \* achievements_api.py 246
max_achievements_to_check == 5    \* achievements_api.py 265

\* achievements_api.py 268
priority_achievements ==
    <<"first_steps", "century_club", "perfectionist", "high_scorer", "legend">>

\* The game data submitted: nothing; a perfect quick game of 100 points; a
\* slow game of 1000 points
GameDatas ==
    {EmptyDict,
     [total_score |-> 100, accuracy |-> 100, time_spent |-> 20],
     [total_score |-> 1000, accuracy |-> 50, time_spent |-> 999]}

\* What _get_user_stats_sync returns for a user (achievements_api.py 88-111)
StatsValues ==
    {[games_played |-> 0, win_rate |-> 0],
     [games_played |-> 10, win_rate |-> 100]}

\* time.time() - start_time at the points where it is read
ElapsedValues == {0, 8, 9}

\* achievements_api.py 288-311: should_unlock of a rule
RulePredicate(achievement_id, user_stats, game_data) ==
    CASE achievement_id = "first_steps" -> Get(user_stats, "games_played", 0) >= 1
      [] achievement_id = "getting_started" -> Get(user_stats, "games_played", 0) >= 10
      [] achievement_id = "century_club" -> Get(game_data, "total_score", 0) >= 100
      [] achievement_id = "perfectionist" -> Get(game_data, "accuracy", 0) >= 100
      [] achievement_id = "speed_demon" -> Get(game_data, "time_spent", 999) <= 30
      [] achievement_id = "sharpshooter" ->
            /\ Get(user_stats, "games_played", 0) >= 10
            /\ Get(user_stats, "win_rate", 0) >= 80
      [] achievement_id = "quiz_master" -> Get(user_stats, "games_played", 0) >= 50
      [] achievement_id = "high_scorer" -> Get(game_data, "total_score", 0) >= 500
      [] achievement_id = "legend" -> Get(game_data, "total_score", 0) >= 1000
      [] achievement_id = "tournament_champion" -> FALSE

\* Mutant: the budget counts as exceeded one second later.
BudgetExceededLate(elapsed) == elapsed > timeout_seconds + 1

\* achievements_api.py 272
BudgetExceeded(elapsed) == elapsed > timeout_seconds

\* Mutant: the achievements already held are not looked up.
NamesOfUserNone(rows, user_id) == {}

\* achievements_api.py 251-254: the names the user holds
NamesOfUser(rows, user_id) ==
    {rows[i].name : i \in {j \in 1..Len(rows) : rows[j].user_id = user_id}}

RowsOfUser(rows, user_id) == SelectSeq(rows, LAMBDA r : r.user_id = user_id)

\* achievements_api.py 341-345
ErrorResponse == [new_achievements |-> <<>>, error |-> TRUE, total_achievements |-> 0]

\* The call has returned: its loop variables are gone, what it was called
\* with and what it did is kept for the properties
Returned(e) ==
    [e EXCEPT !.next_rule = 1, !.processed_count = 0, !.elapsed = 0, !.pending = <<>>,
              !.existing_names = {}]

InitAchievements ==
    /\ SamplingIdle
    /\ CacheIdle
    /\ RaceIdle
    /\ TournamentIdle
    /\ LaterIdle

\* achievements_api.py 244-268: the call arrives, the user's achievements and
\* stats are read. A failure inside _get_user_stats_sync is swallowed there
\* (118-120) and leaves the stats empty; a failure of the query of 251 is
\* caught at 341.
EvalBegin ==
    /\ ev.pc = "done"
    /\ eval_calls < MaxEvalCalls
    /\ eval_calls' = eval_calls + 1
    /\ ev_prev' = CallSummary(ev)
    /\ \E user_id \in UserIds, game_data \in GameDatas, stats \in StatsValues,
          stats_fails \in BOOLEAN, query_fails \in BOOLEAN, elapsed \in ElapsedValues :
          IF query_fails
          THEN /\ ev' = [IdleEvaluation EXCEPT !.user_id = user_id, !.game_data = game_data,
                                               !.failed = TRUE]
               /\ ev_response' = ErrorResponse
          ELSE /\ ev' = [IdleEvaluation EXCEPT
                            !.pc = "loop", !.user_id = user_id, !.game_data = game_data,
                            !.user_stats = IF stats_fails THEN EmptyDict ELSE stats,
                            !.stats_failed = stats_fails,
                            !.existing_names = NamesOfUser(achievement_rows, user_id),
                            !.existing_count = Len(RowsOfUser(achievement_rows, user_id)),
                            !.elapsed = elapsed]
               /\ UNCHANGED ev_response
    /\ UNCHANGED achievement_rows
    /\ UNCHANGED nonAchievementVars

\* achievements_api.py 270-331: one pass of the loop; time passes meanwhile
EvalRule ==
    /\ ev.pc = "loop"
    /\ IF ev.next_rule > Len(priority_achievements)
       THEN ev' = [ev EXCEPT !.pc = "commit"]
       ELSE IF BudgetExceeded(ev.elapsed)
       THEN ev' = [ev EXCEPT !.pc = "commit", !.stopped = TRUE]
       ELSE IF ev.processed_count >= max_achievements_to_check
       THEN ev' = [ev EXCEPT !.pc = "commit"]
       ELSE \E later \in {e \in ElapsedValues : e >= ev.elapsed} :
              LET achievement_id == priority_achievements[ev.next_rule]
                  achievement_name == AchievementName(achievement_id)
                  should_unlock ==
                      /\ achievement_name \notin ev.existing_names
                      /\ RulePredicate(achievement_id, ev.user_stats, ev.game_data)
              IN  IF achievement_id \notin AchievementIds
                  THEN ev' = [ev EXCEPT !.next_rule = @ + 1, !.elapsed = later]
                  ELSE ev' = [ev EXCEPT
                                 !.next_rule = @ + 1,
                                 !.elapsed = later,
                                 !.processed_count = @ + 1,
                                 !.checked = Append(@, achievement_id),
                                 !.pending = IF should_unlock
                                             THEN Append(@, achievement_name) ELSE @,
                                 !.new_achievements = IF should_unlock
                                                      THEN Append(@, achievement_id) ELSE @]
    /\ UNCHANGED <<achievement_rows, ev_response, ev_prev, eval_calls>>
    /\ UNCHANGED nonAchievementVars

\* achievements_api.py 334-339: commit and the normal response
EvalCommit ==
    /\ ev.pc = "commit"
    /\ achievement_rows' =
          achievement_rows \o
              [i \in 1..Len(ev.pending) |-> [user_id |-> ev.user_id, name |-> ev.pending[i]]]
    /\ ev_response' = [new_achievements |-> ev.new_achievements, error |-> FALSE,
                       total_achievements |-> ev.existing_count + Len(ev.new_achievements)]
    /\ ev' = Returned([ev EXCEPT !.pc = "done"])
    /\ UNCHANGED <<ev_prev, eval_calls>>
    /\ UNCHANGED nonAchievementVars

\* achievements_api.py 341-345: an exception in the loop or in the commit;
\* the rollback drops the rows added so far
EvalRaise ==
    /\ ev.pc \in {"loop", "commit"}
    /\ ev' = Returned([ev EXCEPT !.pc = "done", !.failed = TRUE, !.new_achievements = <<>>])
    /\ ev_response' = ErrorResponse
    /\ UNCHANGED <<achievement_rows, ev_prev, eval_calls>>
    /\ UNCHANGED nonAchievementVars

NextAchievements ==
    \/ EvalBegin
    \/ EvalRule
    \/ EvalCommit
    \/ EvalRaise

SpecAchievements == InitAchievements /\ [][NextAchievements]_vars

\* The latest call has returned and the call before it was given the same
\* user, stats and game data
SecondCallWithSameInput ==
    /\ ev.pc = "done"
    /\ ev_prev.user_id = ev.user_id
    /\ ev_prev.user_stats = ev.user_stats
    /\ ev_prev.game_data = ev.game_data

NoAchievementTwice ==
    \A i, j \in 1..Len(achievement_rows) :
        i # j => achievement_rows[i] # achievement_rows[j]

IsPrefixOf(s, t) ==
    /\ Len(s) <= Len(t)
    /\ \A i \in 1..Len(s) : s[i] = t[i]

\* The rows of the achievements a call reported as new
UnlockedRows(e) ==
    {[user_id |-> e.user_id, name |-> AchievementName(e.new_achievements[i])] :
        i \in 1..Len(e.new_achievements)}

\* C17: a call checks the rules in the order first_steps, century_club,
\* perfectionist, high_scorer, legend and never more than five of them; no
\* rule is checked once more than 8 seconds have elapsed; a call that stops
\* early and commits stores what it unlocked before the stop and returns it
\* in a normal response.
C17_FixedOrderWithinBudget ==
    [][/\ IsPrefixOf(ev'.checked, priority_achievements)
       /\ Len(ev'.checked) <= 5
       /\ (ev.pc = "loop" /\ ev.elapsed > 8) => ev'.checked = ev.checked
       /\ (ev.pc = "commit" /\ ev.stopped /\ ev'.pc = "done" /\ ~ev'.failed) =>
             /\ ev_response'.new_achievements = ev.new_achievements
             /\ ~ev_response'.error
             /\ UnlockedRows(ev) \subseteq
                   {achievement_rows'[i] : i \in 1..Len(achievement_rows')}]_vars

\* A call stopped by the budget after unlocking century_club has returned:
\* the achievement is stored and reported.
C17_Witness ==
    /\ ev.pc = "done"
    /\ ev.stopped
    /\ ~ev.failed
    /\ ev.checked = <<"first_steps", "century_club">>
    /\ ev.new_achievements = <<"century_club">>
    /\ ev_response.new_achievements = <<"century_club">>
    /\ ~ev_response.error
    /\ [user_id |-> ev.user_id, name |-> AchievementName("century_club")]
          \in {achievement_rows[i] : i \in 1..Len(achievement_rows)}

\* The latest call ran to its normal return without meeting the budget
FinishedWithinBudget ==
    /\ ev.pc = "done"
    /\ eval_calls > 0
    /\ ~ev.stopped
    /\ ~ev.failed

\* C18: a call that finished within the budget leaves the user holding every
\* achievement of ACHIEVEMENT_DEFINITIONS whose predicate the stats and game
\* data satisfy.
C18_EverySatisfiedRuleUnlocked ==
    FinishedWithinBudget =>
        \A achievement_id \in AchievementIds :
            RulePredicate(achievement_id, ev.user_stats, ev.game_data) =>
                AchievementName(achievement_id) \in NamesOfUser(achievement_rows, ev.user_id)

\* C19: a call in which a step failed (reading the stats included) returns an
\* empty new_achievements list with an error marker and stores nothing.
C19_FailureGivesErrorResponse ==
    (ev.pc = "done" /\ (ev.failed \/ ev.stats_failed)) =>
        /\ ev_response.new_achievements = <<>>
        /\ ev_response.error
        /\ Len(RowsOfUser(achievement_rows, ev.user_id)) = ev.existing_count

-----------------------------------------------------------------------------
(* The questions table: its writers create_question_admin, create_question,*)
(* update_question_admin and bulk_upload_questions (main.py 237-556,       *)
(* 1008-1025), and its readers generate_questions (main.py 2287-2405) and  *)
(* submit_tournament_answer (tournament_api.py 1173-1251)                  *)

ThreeOptions == <<"a", "b", "c">>

FourOptions == <<"a", "b", "c", "d">>

OptionLists == {ThreeOptions, FourOptions}

CorrectAnswerValues == {-1, 1, 4}

\* The bodies of create and bulk upload requests: two that satisfy the
\* validators for topic 1 and one for topic 2, one with three options, two
\* with an answer index out of range, one for a topic that is not stored
\* (TopicRows has topics 1 and 2)
QuestionDatas ==
    {[text |-> "q1", options |-> FourOptions, correct_answer |-> 1, topic_id |-> 1],
     [text |-> "q2", options |-> FourOptions, correct_answer |-> 1, topic_id |-> 1],
     [text |-> "q3", options |-> FourOptions, correct_answer |-> 1, topic_id |-> 2],
     [text |-> "q2", options |-> ThreeOptions, correct_answer |-> 1, topic_id |-> 1],
     [text |-> "q1", options |-> FourOptions, correct_answer |-> 4, topic_id |-> 1],
     [text |-> "q2", options |-> FourOptions, correct_answer |-> -1, topic_id |-> 1],
     [text |-> "q1", options |-> FourOptions, correct_answer |-> 1, topic_id |-> 9]}

\* A bulk upload entry without correct_answer
IncompleteQuestionData == [text |-> "q1", options |-> FourOptions, topic_id |-> 1]

UploadLists ==
    UNION {[1..n -> QuestionDatas \cup {IncompleteQuestionData}] : n \in 1..MaxUpload}

\* The bodies of update requests: a field that is None is absent
QuestionUpdates ==
    {EmptyDict,
     [options |-> ThreeOptions],
     [correct_answer |-> 4],
     [options |-> FourOptions, correct_answer |-> 1]}

\* schemas.py 156-168: the validators of QuestionBase
validate_options(v) == Len(v) = 4

validate_correct_answer(v) == v \in {0, 1, 2, 3}

TopicExists(topic_id) == \E topic \in TopicRows : topic.id = topic_id

\* models.py 74-86: a new row of the questions table
NewQuestion(id, question_data, difficulty) ==
    [id |-> id, text |-> question_data.text, topic_id |-> question_data.topic_id,
     options |-> question_data.options, correct_answer |-> question_data.correct_answer,
     difficulty |-> difficulty, times_asked |-> 0]

\* The invariant of the questions table the specification names
WellFormed(q) ==
    /\ Len(q.options) = 4
    /\ q.correct_answer \in 0..3

InitQuestions ==
    /\ SamplingIdle
    /\ CacheIdle
    /\ RaceIdle
    /\ TournamentIdle
    /\ BoardIdle
    /\ AchievementsIdle
    /\ PointsIdle
    /\ EntryIdle
    /\ stored_questions = <<>>
    /\ bank_cache = <<>>
    /\ bank_response = NoBankResponse
    /\ bank_request = NoRequest
    /\ bank_calls = 0
    /\ bank_session = NewSession(1, 1, 1, (CHOOSE t \in TournamentRows : t.id = 1).questions_count)
    /\ bank_answers = <<>>
    /\ bank_scored = <<>>

\* main.py 478-508; a body the validators reject is answered 422 and an
\* unknown topic 404, both without a change
create_question_admin ==
    /\ bank_calls < MaxBankCalls
    /\ bank_calls' = bank_calls + 1
    /\ \E question_data \in QuestionDatas :
          /\ validate_options(question_data.options)
          /\ validate_correct_answer(question_data.correct_answer)
          /\ TopicExists(question_data.topic_id)
          /\ stored_questions' =
                Append(stored_questions,
                       NewQuestion(Len(stored_questions) + 1, question_data, "medium"))
    /\ UNCHANGED <<bank_cache, bank_response, bank_request, bank_session, bank_answers,
                   bank_scored>>
    /\ UNCHANGED nonQuestionVars

\* main.py 1008-1025: the same validators and the same row; the
\* question_count of the topic, which it also raises, is not part of the state
create_question ==
    /\ bank_calls < MaxBankCalls
    /\ bank_calls' = bank_calls + 1
    /\ \E question_data \in QuestionDatas :
          /\ validate_options(question_data.options)
          /\ validate_correct_answer(question_data.correct_answer)
          /\ TopicExists(question_data.topic_id)
          /\ stored_questions' =
                Append(stored_questions,
                       NewQuestion(Len(stored_questions) + 1, question_data, "medium"))
    /\ UNCHANGED <<bank_cache, bank_response, bank_request, bank_session, bank_answers,
                   bank_scored>>
    /\ UNCHANGED nonQuestionVars

\* main.py 511-556: QuestionUpdate (schemas.py 186-209) validates neither
\* options nor correct_answer
update_question_admin ==
    /\ bank_calls < MaxBankCalls
    /\ bank_calls' = bank_calls + 1
    /\ \E question_id \in 1..Len(stored_questions), question_data \in QuestionUpdates :
          stored_questions' =
              [stored_questions EXCEPT
                  ![question_id].options = Get(question_data, "options", @),
                  ![question_id].correct_answer = Get(question_data, "correct_answer", @)]
    /\ UNCHANGED <<bank_cache, bank_response, bank_request, bank_session, bank_answers,
                   bank_scored>>
    /\ UNCHANGED nonQuestionVars

\* main.py 252-290: whether the entry is added. The session does not
\* autoflush (database.py 48), so the duplicate query of 262 sees the rows
\* stored before the call only. An entry without correct_answer is counted
\* as an error: at 257 when validate_data is set, at 280 (KeyError) otherwise.
UploadAccepted(stored, question_data, skip_duplicates) ==
    /\ {"text", "options", "correct_answer", "topic_id"} \subseteq DOMAIN question_data
    /\ ~(skip_duplicates /\ \E i \in 1..Len(stored) : stored[i].text = question_data.text)
    /\ TopicExists(question_data.topic_id)

\* main.py 250-294: the rows the loop adds, in order
RECURSIVE UploadedRows(_, _, _, _)
UploadedRows(stored, questions_in, skip_duplicates, next_id) ==
    IF questions_in = <<>> THEN <<>>
    ELSE IF UploadAccepted(stored, Head(questions_in), skip_duplicates)
         THEN <<NewQuestion(next_id, Head(questions_in), "easy")>>
                 \o UploadedRows(stored, Tail(questions_in), skip_duplicates, next_id + 1)
         ELSE UploadedRows(stored, Tail(questions_in), skip_duplicates, next_id)

\* main.py 237-306
bulk_upload_questions ==
    /\ bank_calls < MaxBankCalls
    /\ bank_calls' = bank_calls + 1
    /\ \E questions_in \in UploadLists, skip_duplicates \in BOOLEAN, validate_data \in BOOLEAN :
          /\ stored_questions' =
                stored_questions \o
                    UploadedRows(stored_questions, questions_in, skip_duplicates,
                                 Len(stored_questions) + 1)
    /\ UNCHANGED <<bank_cache, bank_response, bank_request, bank_session, bank_answers,
                   bank_scored>>
    /\ UNCHANGED nonQuestionVars

\* The requests served: the stored subject, one topic in both difficulties
\* and both topics
BankRequests ==
    {[subject |-> "Science", topics |-> <<"Physics Basics">>, difficulty |-> d, count |-> n] :
        d \in {"Easy", "Medium"}, n \in 1..MaxReqCount}
    \cup {[subject |-> "Science", topics |-> <<"Physics Basics", "Chemistry Elements">>,
            difficulty |-> "Easy", count |-> n] : n \in 1..MaxReqCount}

\* ORDER BY times_asked ASC over rows; rows of equal times_asked come in an
\* order the database chooses (main.py 2333)
RowsByTimesAsked(rows) ==
    {[i \in 1..Len(rows) |-> rows[p[i]]] :
        p \in {q \in Permutations(1..Len(rows)) :
                 \A i, j \in 1..Len(rows) :
                     i < j => rows[q[i]].times_asked <= rows[q[j]].times_asked}}

\* main.py 2327-2350: the lists selected_questions can be
BankSelectedChoices(r, stored) ==
    LET topic_ids == {t.id : t \in SubjectTopics(r)}
        in_topics == SelectSeq(stored, LAMBDA q : q.topic_id \in topic_ids)
        with_difficulty ==
            SelectSeq(in_topics, LAMBDA q : Lower(q.difficulty) = Lower(r.difficulty))
    IN  UNION {
          LET difficulty_questions == Limit(dq, r.count * 3)
          IN  IF Len(difficulty_questions) < r.count
              THEN {LET all_questions == Limit(aq, r.count * 2)
                    IN  IF Len(all_questions) >= r.count
                        THEN PyPrefix(all_questions, r.count)
                        ELSE all_questions :
                    aq \in RowsByTimesAsked(in_topics)}
              ELSE {PyPrefix(difficulty_questions, r.count)} :
          dq \in RowsByTimesAsked(with_difficulty)}

\* main.py 2378: the name of the topic of a selected row
TopicName(topic_id) == (CHOOSE t \in TopicRows : t.id = topic_id).name

\* main.py 2368-2384: the question dicts of the response
QuestionDicts(selected) ==
    [i \in 1..Len(selected) |->
        [id |-> selected[i].id, options |-> selected[i].options,
         correct_answer |-> selected[i].correct_answer,
         topic |-> TopicName(selected[i].topic_id)]]

\* main.py 2287-2405 over the questions table; whether a cached entry is
\* younger than CACHE_DURATION is left open
generate_questions_stored ==
    /\ bank_calls < MaxBankCalls
    /\ bank_calls' = bank_calls + 1
    /\ \E r \in BankRequests, fresh \in BOOLEAN :
          /\ bank_request' = r
          /\ IF cache_key(r) \in DOMAIN bank_cache /\ fresh
             THEN /\ bank_response' = bank_cache[cache_key(r)]
                  /\ UNCHANGED <<stored_questions, bank_cache>>
             ELSE \E selected \in BankSelectedChoices(r, stored_questions) :
                     IF selected = <<>>
                     THEN /\ bank_response' = [kind |-> "sample", questions |-> <<>>]
                          /\ UNCHANGED <<stored_questions, bank_cache>>
                     ELSE LET result_data ==
                                  [kind |-> "stored", questions |-> QuestionDicts(selected)]
                              question_ids == {selected[i].id : i \in 1..Len(selected)}
                          IN  /\ stored_questions' =
                                    [i \in 1..Len(stored_questions) |->
                                        IF stored_questions[i].id \in question_ids
                                        THEN [stored_questions[i] EXCEPT !.times_asked = @ + 1]
                                        ELSE stored_questions[i]]
                              /\ bank_response' = result_data
                              /\ bank_cache' = (cache_key(r) :> result_data) @@ bank_cache
    /\ UNCHANGED <<bank_session, bank_answers, bank_scored>>
    /\ UNCHANGED nonQuestionVars

\* tournament_api.py 1173-1251 for a question of the questions table; an
\* unknown question_id is answered 404 without a change
submit_tournament_answer_stored ==
    /\ bank_calls < MaxBankCalls
    /\ bank_calls' = bank_calls + 1
    /\ \E question_id \in 1..Len(stored_questions), selected_answer \in CorrectAnswerValues,
          time_taken \in TimeTakenValues :
          LET question == stored_questions[question_id]
              is_correct == selected_answer = question.correct_answer
              points == points_earned(is_correct, time_taken)
          IN  /\ bank_answers' =
                    Append(bank_answers,
                           [session_id |-> bank_session.id,
                            question_id |-> question_id,
                            selected_answer |-> selected_answer,
                            is_correct |-> is_correct,
                            time_taken |-> time_taken,
                            points_earned |-> points])
              /\ bank_session' = UpdateSessionStats(bank_session, is_correct, points, time_taken)
              /\ bank_scored' = Append(bank_scored, question)
    /\ UNCHANGED <<stored_questions, bank_cache, bank_response, bank_request>>
    /\ UNCHANGED nonQuestionVars

NextQuestions ==
    \/ create_question_admin
    \/ create_question
    \/ update_question_admin
    \/ bulk_upload_questions
    \/ generate_questions_stored
    \/ submit_tournament_answer_stored

SpecQuestions == InitQuestions /\ [][NextQuestions]_vars

\* C20: no question dict returned by generate_questions and no question
\* scored by submit_tournament_answer has a correct_answer outside 0..3 or
\* an options list that does not have exactly 4 entries.
C20_MalformedNeverServed ==
    /\ \A i \in 1..Len(bank_response.questions) : WellFormed(bank_response.questions[i])
    /\ \A i \in 1..Len(bank_scored) : WellFormed(bank_scored[i])

\* A call of generate_questions that answered from the questions table:
\* the only step that raises times_asked
ServedFromTable ==
    /\ Len(stored_questions') = Len(stored_questions)
    /\ \E i \in 1..Len(stored_questions) :
          stored_questions'[i].times_asked # stored_questions[i].times_asked

\* The stored questions of the named topic in the difficulty of request r
HeldInTopic(stored, name, r) ==
    {i \in 1..Len(stored) :
        /\ TopicName(stored[i].topic_id) = name
        /\ Lower(stored[i].difficulty) = Lower(r.difficulty)}

\* C23 (as claimed): when each of the K requested topics holds at least
\* ceil(count/K) questions of the requested difficulty, a call answered from
\* the table returns floor(count/K) or ceil(count/K) questions of each topic.
C23_EvenTopicDistribution ==
    [][ServedFromTable =>
          LET r == bank_request'
              names == Range(r.topics)
              k == Cardinality(names)
              lo == r.count \div k
              hi == (r.count + k - 1) \div k
              returned == bank_response'.questions
          IN  (\A name \in names :
                  Cardinality(HeldInTopic(stored_questions, name, r)) >= hi) =>
                 \A name \in names :
                    Cardinality({i \in 1..Len(returned) : returned[i].topic = name})
                        \in {lo, hi}]_vars

-----------------------------------------------------------------------------
(* The points of one answer, as submit_tournament_answer computes them     *)
(* (tournament_api.py 1213-1222), for every time_taken a request can hold  *)

\* answer_data is a dict: none of its values is validated
AnswerDatas ==
    [question_id : {q.id : q \in TournamentQuestionRows},
     selected_answer : SelectedAnswers,
     time_taken : (0 - MaxTimeTaken)..MaxTimeTaken]

InitPoints ==
    /\ SamplingIdle
    /\ CacheIdle
    /\ RaceIdle
    /\ TournamentIdle
    /\ BoardIdle
    /\ AchievementsIdle
    /\ QuestionsIdle
    /\ EntryIdle
    /\ answer_data \in AnswerDatas
    /\ answer_points = 0
    /\ answer_pc = "received"

\* tournament_api.py 1206-1222
ScoreAnswer ==
    /\ answer_pc = "received"
    /\ \E question \in TournamentQuestionRows :
          /\ question.id = answer_data.question_id
          /\ answer_points' =
                points_earned(answer_data.selected_answer = question.correct_answer,
                              answer_data.time_taken)
    /\ answer_pc' = "scored"
    /\ UNCHANGED answer_data
    /\ UNCHANGED nonPointsVars

NextPoints == ScoreAnswer

SpecPoints == InitPoints /\ [][NextPoints]_vars

\* C25 (as claimed): the points of an answer are 0 or between 100 and 150,
\* whatever integer time_taken was sent.
C25_PointsWithinBonus ==
    answer_pc = "scored" => (answer_points = 0 \/ answer_points \in 100..150)

-----------------------------------------------------------------------------
(* Entering a tournament and playing it, each call with its caller and its *)
(* status code: create_tournament, update_tournament_status,               *)
(* update_tournament, register_tournament, process_tournament_payment,     *)
(* verify_payment, join_tournament, start_tournament_session,              *)
(* submit_tournament_answer and complete_tournament_session                *)
(* (tournament_api.py 152-876, 1066-1350)                                  *)

\* tournament_api.py 476: the statuses update_tournament_status accepts
TournamentStatuses == {"draft", "published", "active", "completed", "cancelled"}

\* What a status request can carry: the five statuses and a string outside them
StatusInputs == TournamentStatuses \cup {"archived"}

\* tournament_api.py 33-50: the fields of TournamentCreate the handlers read:
\* a free and a paid tournament for the default 100 players, and a free one
\* for a single player
TournamentCreates ==
    {[subscription_fee |-> 0, max_players |-> 100, questions_count |-> 2],
     [subscription_fee |-> 5, max_players |-> 100, questions_count |-> 2],
     [subscription_fee |-> 0, max_players |-> 1, questions_count |-> 2]}

\* tournament_api.py 53-72: bodies of update_tournament; a field that is not
\* set is absent
TournamentUpdates ==
    {EmptyDict, [status |-> "active"], [status |-> "archived"], [subscription_fee |-> 0]}

\* PaymentRequest bodies: each method, with and without the detail it needs,
\* and an amount that is not the fee; None is written ""
PaymentRequests ==
    {[payment_method |-> "free", amount |-> 0, crypto_currency |-> "", momo_provider |-> ""],
     [payment_method |-> "free", amount |-> 5, crypto_currency |-> "", momo_provider |-> ""],
     [payment_method |-> "crypto", amount |-> 5, crypto_currency |-> "BTC", momo_provider |-> ""],
     [payment_method |-> "crypto", amount |-> 5, crypto_currency |-> "", momo_provider |-> ""],
     [payment_method |-> "momo", amount |-> 5, crypto_currency |-> "", momo_provider |-> "MTN"],
     [payment_method |-> "momo", amount |-> 0, crypto_currency |-> "", momo_provider |-> "MTN"],
     [payment_method |-> "card", amount |-> 5, crypto_currency |-> "", momo_provider |-> ""]}

\* Seconds since registered_at at a verify_payment call
SecondsSinceRegistered == {10, 40}

VerifyDelay == 30    \* tournament_api.py 750

InitEntry ==
    /\ SamplingIdle
    /\ CacheIdle
    /\ RaceIdle
    /\ TournamentIdle
    /\ BoardIdle
    /\ AchievementsIdle
    /\ QuestionsIdle
    /\ PointsIdle
    /\ EntryIdle

Call(handler, tournament_id, current_user, session_id, status_code) ==
    [handler |-> handler, tournament_id |-> tournament_id, current_user |-> current_user,
     session_id |-> session_id, status_code |-> status_code]

\* db.query(Tournament).filter(Tournament.id == tournament_id).first()
TournamentFound(tournament_id) == tournament_id \in 1..Len(entry_tournaments)

\* tournament_api.py 152-250; a caller who is not an admin is answered 403,
\* and the subject named is taken to exist
create_tournament ==
    /\ entry_calls < MaxEntryCalls
    /\ entry_calls' = entry_calls + 1
    /\ \E tournament_data \in TournamentCreates, is_admin \in BOOLEAN :
          IF ~is_admin
          THEN /\ entry_last' = Call("create_tournament", 0, 0, 0, 403)
               /\ UNCHANGED entry_tournaments
          ELSE /\ Len(entry_tournaments) < MaxTournaments
               /\ entry_tournaments' =
                     Append(entry_tournaments,
                            [id |-> Len(entry_tournaments) + 1,
                             subscription_fee |-> tournament_data.subscription_fee,
                             max_players |-> tournament_data.max_players,
                             questions_count |-> tournament_data.questions_count,
                             status |-> "draft"])
               /\ entry_last' = Call("create_tournament", Len(entry_tournaments) + 1, 0, 0, 200)
    /\ UNCHANGED <<entry_participants, entry_sessions, entry_answers>>
    /\ UNCHANGED nonEntryVars

\* tournament_api.py 455-486
update_tournament_status ==
    /\ entry_calls < MaxEntryCalls
    /\ entry_calls' = entry_calls + 1
    /\ \E tournament_id \in TournamentIdInputs, new_status \in StatusInputs,
          is_admin \in BOOLEAN :
          LET status_code ==
                  IF ~is_admin THEN 403
                  ELSE IF ~TournamentFound(tournament_id) THEN 404
                  ELSE IF new_status \notin TournamentStatuses THEN 400
                  ELSE 200
          IN  /\ entry_last' = Call("update_tournament_status", tournament_id, 0, 0, status_code)
              /\ entry_tournaments' =
                    IF status_code = 200
                    THEN [entry_tournaments EXCEPT ![tournament_id].status = new_status]
                    ELSE entry_tournaments
    /\ UNCHANGED <<entry_participants, entry_sessions, entry_answers>>
    /\ UNCHANGED nonEntryVars

\* tournament_api.py 817-823: setattr for every field that is set
ApplyUpdate(tournament, update_dict) ==
    [tournament EXCEPT !.status = Get(update_dict, "status", @),
                       !.subscription_fee = Get(update_dict, "subscription_fee", @)]

\* tournament_api.py 797-876
update_tournament ==
    /\ entry_calls < MaxEntryCalls
    /\ entry_calls' = entry_calls + 1
    /\ \E tournament_id \in TournamentIdInputs, tournament_data \in TournamentUpdates,
          is_admin \in BOOLEAN :
          LET status_code ==
                  IF ~is_admin THEN 403
                  ELSE IF ~TournamentFound(tournament_id) THEN 404
                  ELSE 200
          IN  /\ entry_last' = Call("update_tournament", tournament_id, 0, 0, status_code)
              /\ entry_tournaments' =
                    IF status_code = 200
                    THEN [entry_tournaments EXCEPT
                             ![tournament_id] = ApplyUpdate(@, tournament_data)]
                    ELSE entry_tournaments
    /\ UNCHANGED <<entry_participants, entry_sessions, entry_answers>>
    /\ UNCHANGED nonEntryVars

\* Mutant: the lookup finds no earlier registration.
ExistingParticipantNone(participants, tournament_id, user_id) == {}

\* tournament_api.py 509-512, 572-575, 1088-1091: the rows of the user for
\* the tournament
ExistingParticipant(participants, tournament_id, user_id) ==
    {p \in DOMAIN participants :
        /\ participants[p].tournament_id = tournament_id
        /\ participants[p].user_id = user_id}

\* tournament_api.py 494-535, 557-598, 1073-1108: the status code that turns
\* the caller away, 0 when the registration may go on; open_statuses are the
\* tournament statuses the handler registers for
RegistrationRefusal(tournament_id, current_user, open_statuses) ==
    IF ~TournamentFound(tournament_id) THEN 404
    ELSE IF entry_tournaments[tournament_id].status \notin open_statuses THEN 400
    ELSE IF ExistingParticipant(entry_participants, tournament_id, current_user) # {} THEN 400
    ELSE IF Cardinality({p \in DOMAIN entry_participants :
                            entry_participants[p].tournament_id = tournament_id})
               >= entry_tournaments[tournament_id].max_players THEN 400
    ELSE 0

\* tournament_models.py 71-100: a new row; payment_id 0 stands for NULL and
\* rank 0 for NULL
NewParticipant(id, tournament_id, user_id, payment_status, payment_id) ==
    [id |-> id, tournament_id |-> tournament_id, user_id |-> user_id,
     payment_status |-> payment_status, payment_id |-> payment_id,
     has_played |-> FALSE, score |-> 0, accuracy |-> Ratio(0, 1), time_taken |-> 0,
     rank |-> 0]

\* tournament_api.py 542 and 1115
PaymentStatusFor(tournament) ==
    IF tournament.subscription_fee = 0 THEN "paid" ELSE "pending"

\* tournament_api.py 488-548
register_tournament ==
    /\ entry_calls < MaxEntryCalls
    /\ entry_calls' = entry_calls + 1
    /\ \E tournament_id \in TournamentIdInputs, current_user \in UserIds :
          LET refusal ==
                  RegistrationRefusal(tournament_id, current_user, {"published", "active"})
          IN  IF refusal # 0
              THEN /\ entry_last' =
                         Call("register_tournament", tournament_id, current_user, 0, refusal)
                   /\ UNCHANGED entry_participants
              ELSE /\ entry_participants' =
                         Append(entry_participants,
                                NewParticipant(Len(entry_participants) + 1, tournament_id,
                                               current_user,
                                               PaymentStatusFor(entry_tournaments[tournament_id]),
                                               0))
                   /\ entry_last' =
                         Call("register_tournament", tournament_id, current_user, 0, 200)
    /\ UNCHANGED <<entry_tournaments, entry_sessions, entry_answers>>
    /\ UNCHANGED nonEntryVars

\* tournament_api.py 1066-1122
join_tournament ==
    /\ entry_calls < MaxEntryCalls
    /\ entry_calls' = entry_calls + 1
    /\ \E tournament_id \in TournamentIdInputs, current_user \in UserIds :
          LET refusal == RegistrationRefusal(tournament_id, current_user, {"active"})
          IN  IF refusal # 0
              THEN /\ entry_last' =
                         Call("join_tournament", tournament_id, current_user, 0, refusal)
                   /\ UNCHANGED entry_participants
              ELSE /\ entry_participants' =
                         Append(entry_participants,
                                NewParticipant(Len(entry_participants) + 1, tournament_id,
                                               current_user,
                                               PaymentStatusFor(entry_tournaments[tournament_id]),
                                               0))
                   /\ entry_last' = Call("join_tournament", tournament_id, current_user, 0, 200)
    /\ UNCHANGED <<entry_tournaments, entry_sessions, entry_answers>>
    /\ UNCHANGED nonEntryVars

\* tournament_api.py 600-723: the payment_status of the row the request
\* creates, "" when the request is answered 400
PaymentOutcome(tournament, payment_request) ==
    IF tournament.subscription_fee = 0 \/ payment_request.payment_method = "free"
    THEN "paid"
    ELSE IF payment_request.payment_method = "crypto"
    THEN IF payment_request.crypto_currency \in {"BTC", "ETH", "USDT"} THEN "pending" ELSE ""
    ELSE IF payment_request.payment_method = "momo"
    THEN IF payment_request.momo_provider \in {"MTN", "Vodafone", "AirtelTigo"}
         THEN "pending" ELSE ""
    ELSE ""

\* tournament_api.py 550-723; payment_id, a fresh uuid4, is the number of
\* the row it is stored in
process_tournament_payment ==
    /\ entry_calls < MaxEntryCalls
    /\ entry_calls' = entry_calls + 1
    /\ \E tournament_id \in TournamentIdInputs, current_user \in UserIds,
          payment_request \in PaymentRequests :
          LET refusal ==
                  RegistrationRefusal(tournament_id, current_user, {"published", "active"})
              accepted ==
                  /\ refusal = 0
                  /\ payment_request.amount = entry_tournaments[tournament_id].subscription_fee
                  /\ PaymentOutcome(entry_tournaments[tournament_id], payment_request) # ""
              payment_id == Len(entry_participants) + 1
          IN  IF ~accepted
              THEN /\ entry_last' =
                         Call("process_tournament_payment", tournament_id, current_user, 0,
                              IF refusal # 0 THEN refusal ELSE 400)
                   /\ UNCHANGED entry_participants
              ELSE /\ entry_participants' =
                         Append(entry_participants,
                                NewParticipant(Len(entry_participants) + 1, tournament_id,
                                               current_user,
                                               PaymentOutcome(entry_tournaments[tournament_id],
                                                              payment_request),
                                               payment_id))
                   /\ entry_last' =
                         Call("process_tournament_payment", tournament_id, current_user, 0, 200)
    /\ UNCHANGED <<entry_tournaments, entry_sessions, entry_answers>>
    /\ UNCHANGED nonEntryVars

\* tournament_api.py 725-757: the time since registered_at is whatever the
\* clock says at the call
verify_payment ==
    /\ entry_calls < MaxEntryCalls
    /\ entry_calls' = entry_calls + 1
    /\ \E tournament_id \in TournamentIdInputs, current_user \in UserIds,
          payment_id \in 1..(Len(entry_participants) + 1),
          time_elapsed \in SecondsSinceRegistered :
          LET found ==
                  {p \in DOMAIN entry_participants :
                      /\ entry_participants[p].tournament_id = tournament_id
                      /\ entry_participants[p].user_id = current_user
                      /\ entry_participants[p].payment_id = payment_id}
          IN  IF found = {}
              THEN /\ entry_last' = Call("verify_payment", tournament_id, current_user, 0, 404)
                   /\ UNCHANGED entry_participants
              ELSE \E p \in found :
                      /\ entry_participants' =
                            IF /\ entry_participants[p].payment_status = "pending"
                               /\ time_elapsed > VerifyDelay
                            THEN [entry_participants EXCEPT ![p].payment_status = "paid"]
                            ELSE entry_participants
                      /\ entry_last' =
                            Call("verify_payment", tournament_id, current_user, 0, 200)
    /\ UNCHANGED <<entry_tournaments, entry_sessions, entry_answers>>
    /\ UNCHANGED nonEntryVars

\* tournament_api.py 1124-1171
start_tournament_session_by ==
    /\ entry_calls < MaxEntryCalls
    /\ entry_calls' = entry_calls + 1
    /\ \E tournament_id \in TournamentIdInputs, current_user \in UserIds :
          LET found == ExistingParticipant(entry_participants, tournament_id, current_user)
          IN  IF found = {}
              THEN /\ entry_last' =
                         Call("start_tournament_session", tournament_id, current_user, 0, 404)
                   /\ UNCHANGED entry_sessions
              ELSE \E p \in found :
                      IF entry_participants[p].has_played
                      THEN /\ entry_last' =
                                 Call("start_tournament_session", tournament_id, current_user,
                                      0, 400)
                           /\ UNCHANGED entry_sessions
                      ELSE /\ TournamentFound(tournament_id)
                           /\ entry_sessions' =
                                 Append(entry_sessions,
                                        NewSession(Len(entry_sessions) + 1, tournament_id, p,
                                                   entry_tournaments[tournament_id].questions_count))
                           /\ entry_last' =
                                 Call("start_tournament_session", tournament_id, current_user,
                                      Len(entry_sessions) + 1, 200)
    /\ UNCHANGED <<entry_tournaments, entry_participants, entry_answers>>
    /\ UNCHANGED nonEntryVars

\* Mutant: the participant of the session is looked up without the caller.
SessionParticipantOfAnyone(session, current_user) ==
    {p \in DOMAIN entry_participants : entry_participants[p].id = session.participant_id}

\* tournament_api.py 1195-1198 and 1281-1284: the participant of the session,
\* if it is the caller's
SessionParticipant(session, current_user) ==
    {p \in DOMAIN entry_participants :
        /\ entry_participants[p].id = session.participant_id
        /\ entry_participants[p].user_id = current_user}

\* tournament_api.py 1183-1186 and 1265-1268
SessionFound(session_id, tournament_id) ==
    /\ session_id \in 1..Len(entry_sessions)
    /\ entry_sessions[session_id].tournament_id = tournament_id

\* tournament_api.py 1173-1251
submit_tournament_answer_by ==
    /\ entry_calls < MaxEntryCalls
    /\ entry_calls' = entry_calls + 1
    /\ \E tournament_id \in TournamentIdInputs, current_user \in UserIds,
          session_id \in 1..(Len(entry_sessions) + 1), question_id \in QuestionIdInputs,
          selected_answer \in SelectedAnswers, time_taken \in {10} :
          LET status_code ==
                  IF ~SessionFound(session_id, tournament_id) THEN 404
                  ELSE IF SessionParticipant(entry_sessions[session_id], current_user) = {}
                  THEN 403
                  ELSE IF \A question \in TournamentQuestionRows : question.id # question_id
                  THEN 404
                  ELSE 200
          IN  /\ entry_last' =
                    Call("submit_tournament_answer", tournament_id, current_user, session_id,
                         status_code)
              /\ IF status_code # 200
                 THEN UNCHANGED <<entry_sessions, entry_answers>>
                 ELSE \E question \in TournamentQuestionRows :
                         /\ question.id = question_id
                         /\ LET is_correct == selected_answer = question.correct_answer
                                points == points_earned(is_correct, time_taken)
                            IN  /\ entry_answers' =
                                      Append(entry_answers,
                                             [session_id |-> session_id,
                                              question_id |-> question_id,
                                              selected_answer |-> selected_answer,
                                              is_correct |-> is_correct,
                                              time_taken |-> time_taken,
                                              points_earned |-> points])
                                /\ entry_sessions' =
                                      [entry_sessions EXCEPT
                                          ![session_id] =
                                              UpdateSessionStats(@, is_correct, points,
                                                                 time_taken)]
    /\ UNCHANGED <<entry_tournaments, entry_participants>>
    /\ UNCHANGED nonEntryVars

\* tournament_api.py 1253-1350
complete_tournament_session_by ==
    /\ entry_calls < MaxEntryCalls
    /\ entry_calls' = entry_calls + 1
    /\ \E tournament_id \in TournamentIdInputs, current_user \in UserIds,
          session_id \in 1..(Len(entry_sessions) + 1) :
          LET status_code ==
                  IF ~SessionFound(session_id, tournament_id) THEN 404
                  ELSE IF SessionParticipant(entry_sessions[session_id], current_user) = {}
                  THEN 403
                  ELSE 200
          IN  /\ entry_last' =
                    Call("complete_tournament_session", tournament_id, current_user,
                         session_id, status_code)
              /\ IF status_code # 200
                 THEN UNCHANGED <<entry_sessions, entry_participants>>
                 ELSE LET session == entry_sessions[session_id]
                          p == session.participant_id
                          played == [entry_participants EXCEPT
                                        ![p] = ParticipantResults(@, session)]
                      IN  /\ entry_sessions' =
                                [entry_sessions EXCEPT ![session_id].is_completed = TRUE]
                          /\ entry_participants' =
                                [played EXCEPT ![p].rank = RankOf(played, p)]
    /\ UNCHANGED <<entry_tournaments, entry_answers>>
    /\ UNCHANGED nonEntryVars

NextEntry ==
    \/ create_tournament
    \/ update_tournament_status
    \/ update_tournament
    \/ register_tournament
    \/ process_tournament_payment
    \/ verify_payment
    \/ join_tournament
    \/ start_tournament_session_by
    \/ submit_tournament_answer_by
    \/ complete_tournament_session_by

SpecEntry == InitEntry /\ [][NextEntry]_vars

C28_OnlyPaidPlay ==
    \A p \in DOMAIN entry_participants :
        (\/ entry_participants[p].has_played
         \/ \E s \in DOMAIN entry_sessions : entry_sessions[s].participant_id = p)
            => entry_participants[p].payment_status = "paid"

\* C29 (as claimed): the status of every tournament is one of draft,
\* published, active, completed, cancelled.
C29_StatusInSet ==
    \A t \in DOMAIN entry_tournaments : entry_tournaments[t].status \in TournamentStatuses

\* The session the latest call named, as it was before the call
NamedSessionOwner ==
    entry_participants[entry_sessions[entry_last'.session_id].participant_id].user_id

\* C30: a submit_tournament_answer or complete_tournament_session call for a
\* session of the tournament by a user who does not own its participant is
\* answered 403 and leaves sessions, answers and participants as they were.
C30_ForeignSessionRefused ==
    [][(/\ entry_calls' = entry_calls + 1
        /\ entry_last'.handler \in {"submit_tournament_answer", "complete_tournament_session"}
        /\ SessionFound(entry_last'.session_id, entry_last'.tournament_id)
        /\ NamedSessionOwner # entry_last'.current_user)
          => /\ entry_last'.status_code = 403
             /\ UNCHANGED <<entry_sessions, entry_answers, entry_participants>>]_vars

\* A user submitted an answer to another user's session and was refused
C30_Witness ==
    /\ entry_last.handler = "submit_tournament_answer"
    /\ entry_last.status_code = 403
    /\ SessionFound(entry_last.session_id, entry_last.tournament_id)
    /\ entry_participants[entry_sessions[entry_last.session_id].participant_id].user_id
          # entry_last.current_user

-----------------------------------------------------------------------------
(* Properties of smart_question_sampling, checked under SpecSampling       *)

NoDuplicates(s) == Cardinality(Range(s)) = Len(s)

TopicsOfPool == {questions[i].topic_id : i \in 1..Len(questions)}

QuestionsOfTopic(t) == {q \in Range(questions) : q.topic_id = t}

\* Position of topic t in order of first appearance in the pool, counted from 0.
FirstIndexOfTopic(t) ==
    CHOOSE i \in 1..Len(questions) :
        /\ questions[i].topic_id = t
        /\ \A j \in 1..(i - 1) : questions[j].topic_id # t

AppearanceRank(t) ==
    Cardinality({u \in TopicsOfPool : FirstIndexOfTopic(u) < FirstIndexOfTopic(t)})

\* base + 1 for the first (N mod K) topics, base for the others
SlotsOfTopic(t) ==
    LET k == Cardinality(TopicsOfPool)
    IN  (count \div k) + (IF AppearanceRank(t) < count % k THEN 1 ELSE 0)

\* C1: for a pool of distinct questions and a count N >= 1 the call returns
\* exactly min(N, |P|) questions, each of them in the pool, none twice, in
\* either selection mode and for every spread of the questions over topics.
C1_ExactCountFromPoolNoDuplicates ==
    (spc = "done" /\ count >= 1) =>
        /\ Len(result) = Min(count, Len(questions))
        /\ Range(result) \subseteq Range(questions)
        /\ NoDuplicates(result)

\* C1 witness: a finished call on a pool larger than N, over two topics, in
\* weighted-random mode, in which the top-up phase added questions.
C1_Witness ==
    /\ spc = "done"
    /\ count >= 1
    /\ Len(questions) > count
    /\ Cardinality(TopicsOfPool) = 2
    /\ use_enhanced_randomization
    /\ additional_questions # <<>>
    /\ Len(result) = count

\* C2 (as claimed): the call returns the empty list for every count N <= 0
\* and for the empty pool.
C2_EmptyForNonPositiveCount ==
    (spc = "done" /\ (count <= 0 \/ questions = <<>>)) => result = <<>>

\* C3: when the pool is larger than N (N >= 0) and spans K topics, and every
\* topic holds at least base + 1 questions (base = N div K), the result holds
\* of each topic exactly its slots: base, plus one for the first (N mod K)
\* topics in order of first appearance; so within 1 of N / K.
C3_PerTopicSlotCounts ==
    (/\ spc = "done"
     /\ count >= 0
     /\ Len(questions) > count
     /\ \A t \in TopicsOfPool :
            Cardinality(QuestionsOfTopic(t)) >= (count \div Cardinality(TopicsOfPool)) + 1)
    => \A t \in TopicsOfPool :
          /\ Cardinality({q \in Range(result) : q.topic_id = t}) = SlotsOfTopic(t)
          /\ Cardinality(TopicsOfPool) * Cardinality({q \in Range(result) : q.topic_id = t})
                \in (count - Cardinality(TopicsOfPool))..(count + Cardinality(TopicsOfPool))

\* C3 witness: N = 3 over two topics of two questions each, the topic of the
\* larger id appearing first: slots 2 and 1.
C3_Witness ==
    /\ spc = "done"
    /\ count = 3
    /\ Len(questions) = 4
    /\ Cardinality(TopicsOfPool) = 2
    /\ \A t \in TopicsOfPool : Cardinality(QuestionsOfTopic(t)) = 2
    /\ questions[1].topic_id = 2
    /\ Cardinality({q \in Range(result) : q.topic_id = 2}) = 2

PerTopicPicks == Range(selected_questions) \ Range(additional_questions)

\* C4: in the standard (shuffle-then-sort) mode each phase takes a
\* lowest-times_asked prefix: a question picked for its topic in the
\* per-topic phase has no larger times_asked than a question of that topic
\* the phase left unpicked, and a question added by the top-up has no larger
\* times_asked than a question left unselected at the end.
C4_StandardModePicksLeastAsked ==
    (spc \in {"topup", "shuffle", "done"} /\ ~use_enhanced_randomization) =>
        /\ \A q \in PerTopicPicks :
              \A u \in QuestionsOfTopic(q.topic_id) \ PerTopicPicks :
                  q.times_asked <= u.times_asked
        /\ \A a \in Range(additional_questions) :
              \A u \in Range(questions) \ Range(selected_questions) :
                  a.times_asked <= u.times_asked

\* C4 witness: a finished standard-mode call in which both phases picked, a
\* per-topic pick was asked less often than an unpicked question of its topic
\* and a more-asked question was left unselected after the top-up.
C4_Witness ==
    /\ spc = "done"
    /\ ~use_enhanced_randomization
    /\ additional_questions # <<>>
    /\ \E q \in PerTopicPicks :
          \E u \in QuestionsOfTopic(q.topic_id) \ PerTopicPicks :
              q.times_asked < u.times_asked
    /\ \E a \in Range(additional_questions) :
          \E u \in Range(questions) \ Range(selected_questions) :
              a.times_asked < u.times_asked

\* C5 (as claimed): when the pool size is at most N the call returns the
\* entire pool in a randomized order: for a pool of two or more questions
\* more than one ordering is a possible outcome.
C5_WholePoolInRandomOrder ==
    (spc = "done" /\ Len(questions) >= 2 /\ Len(questions) <= count) =>
        /\ result \in Shuffle(questions)
        /\ Cardinality(ReturnAllResults(questions)) > 1

=============================================================================
